---------------------------- MODULE Spec2Model ----------------------------
(***************************************************************************)
(* Urban Cooling Farm: the heat-island estimator (ClimateService), the     *)
(* priority scorer, area classifier, solution recommender and mission      *)
(* generator (MissionAgent), and the caches they sit on.                   *)
(*                                                                         *)
(* Units.  The code computes in binary doubles; the model computes the     *)
(* same expressions exactly, in scaled integers:                           *)
(*   green-coverage ratio  tenths of a percent        (20.4 %  -> 204)     *)
(*   heat-island intensity hundredths of a degree     (1.47    -> 147)     *)
(*   temperature           tenths of a degree         (29.5    -> 295)     *)
(*   wind speed            tenths of m/s              (2.5     -> 25)      *)
(*   priority score        1/ScoreScale of a point    (60.0    -> 60*ScoreScale) *)
(*   cooling effect        hundredths of a degree     (0.45    -> 45)      *)
(*   latitude, longitude   1/10000 of a degree                             *)
(* round(x, n) of a double whose exact value is a tie falls to the side    *)
(* the double lies on; the tables IntensityRoundsUp, TemperatureRoundsUp   *)
(* and CoolingRoundsUp record that side for the inputs of the model.       *)
(* Strings the code searches (district names, filters, cache keys) are     *)
(* sequences with one string per character, a Hangul syllable written in   *)
(* Latin letters, so that Python's substring test is sequence containment. *)
(***************************************************************************)
EXTENDS Integers, Sequences, FiniteSets, TLC

VARIABLES
    heat_data,      \* engine input: a HeatIslandData
    green_data,     \* engine input: None, or a sequence of GreenSpaceData
    weather_data,   \* engine input: None, or a WeatherData
    op,             \* the operation that ran last
    args,           \* its arguments
    result,         \* what it returned
    raised,         \* the exception it raised, NotRaised if it returned
    park_cache,     \* ClimateService._park_cache: cache key -> cached list
    priority_areas, \* generate_missions_batch: the areas its loop has yet to visit
    missions,       \* generate_missions_batch: the missions its loop has collected
    use_mock,       \* ClimateService.use_mock (settings.USE_MOCK_DATA)
    district_park_stats,  \* ClimateService._district_park_stats: district -> ratio
    awaiting,       \* calls of get_district_green_stats suspended at their await
    mission_table   \* the rows of the table "missions": id -> row

vars == <<heat_data, green_data, weather_data, op, args, result, raised, park_cache,
          priority_areas, missions, use_mock, district_park_stats, awaiting,
          mission_table>>

\* Optional[T]: None is the empty sequence, a present value x is <<x>>.
\* A district filter is a sequence of syllables already; there None and ""
\* are both <<>>, and the code treats them alike (`if district`,
\* `district or 'all'`).
None == <<>>
Some(x) == <<x>>
Get(o) == o[1]

\* No exception: the operation returned.
NotRaised == ""

(***************************************************************************)
(* Bounds of the model.                                                    *)
(***************************************************************************)
MaxSamples == 2     \* longest list of green-space samples handed to the engine
MaxTopN == 2        \* largest top_n of a batch request

\* ------------------------------------------------------------ arithmetic

Min(a, b) == IF a <= b THEN a ELSE b
Max(a, b) == IF a >= b THEN a ELSE b

RECURSIVE Gcd(_, _)
Gcd(a, b) == IF b = 0 THEN a ELSE Gcd(b, a % b)

RECURSIVE LcmUpTo(_)
LcmUpTo(n) == IF n <= 1 THEN 1 ELSE LET l == LcmUpTo(n - 1) IN (l * n) \div Gcd(l, n)

\* random.randint(3, 5): the mock provider hands out at most 5 samples.
MockCountMax == 5

\* With n samples the priority score is a multiple of 1/(100 * n);
\* ScoreScale is a common denominator for every list length of the model.
ScoreScale == 100 * LcmUpTo(Max(MaxSamples, MockCountMax))

\* Python's round() on the exact value num/den (den > 0): half to even.
RoundHalfEven(num, den) ==
    LET q == num \div den
        r == num % den
    IN  IF 2 * r > den \/ (2 * r = den /\ q % 2 = 1) THEN q + 1 ELSE q

\* round() of a double whose exact value is the tie num/den: up when the
\* double lies above the tie, down when it lies below.
RoundDouble(num, den, above) ==
    LET q == num \div den
        r == num % den
    IN  IF 2 * r = den THEN (IF above THEN q + 1 ELSE q) ELSE RoundHalfEven(num, den)

RECURSIVE SumSeq(_)
SumSeq(s) == IF s = <<>> THEN 0 ELSE Head(s) + SumSeq(Tail(s))

\* Python's `sub in s` on strings.
Contains(sub, s) ==
    \E i \in 0..(Len(s) - Len(sub)) :
        \A k \in 1..Len(sub) : s[i + k] = sub[k]

\* s[:n] for a Python list s: a negative n counts from the end.
Slice(s, n) ==
    IF n >= 0 THEN SubSeq(s, 1, Min(n, Len(s)))
    ELSE SubSeq(s, 1, Max(Len(s) + n, 0))

\* sorted(s, key=..., reverse=True) / list.sort(key=..., reverse=True), on a
\* sequence of <<key, element>> pairs: descending by key; elements with
\* equal keys keep their order.
\* A descending sort that is not stable: x goes before its equals.
InsertDesc_Unstable(x, s) ==
    LET p == Cardinality({i \in 1..Len(s) : s[i][1] > x[1]})
    IN  SubSeq(s, 1, p) \o <<x>> \o SubSeq(s, p + 1, Len(s))

\* x goes behind the pairs of the sorted s whose key is not smaller.
InsertDesc(x, s) ==
    LET p == Cardinality({i \in 1..Len(s) : s[i][1] >= x[1]})
    IN  SubSeq(s, 1, p) \o <<x>> \o SubSeq(s, p + 1, Len(s))

SortDesc(pairs) ==
    LET F[i \in 0..Len(pairs)] ==
            IF i = 0 THEN <<>> ELSE InsertDesc(pairs[i], F[i - 1])
    IN  F[Len(pairs)]

\* The elements of a sequence of <<key, element>> pairs.
Elements(pairs) == [i \in 1..Len(pairs) |-> pairs[i][2]]

\* --------------------------------------------------------- the districts

\* GYEONGGI_DISTRICTS, in declaration order.
GYEONGGI_DISTRICTS == <<
    [district |-> <<"su", "won", "si">>,       lat |-> 372636, lng |-> 1270286, population_density |-> 9800],
    [district |-> <<"seong", "nam", "si">>,    lat |-> 374200, lng |-> 1271265, population_density |-> 9200],
    [district |-> <<"go", "yang", "si">>,      lat |-> 376584, lng |-> 1268320, population_density |-> 7500],
    [district |-> <<"yong", "in", "si">>,      lat |-> 372410, lng |-> 1271775, population_density |-> 3200],
    [district |-> <<"bu", "cheon", "si">>,     lat |-> 375034, lng |-> 1267660, population_density |-> 15800],
    [district |-> <<"an", "san", "si">>,       lat |-> 373219, lng |-> 1268309, population_density |-> 8100],
    [district |-> <<"an", "yang", "si">>,      lat |-> 373943, lng |-> 1269568, population_density |-> 11200],
    [district |-> <<"pyeong", "taek", "si">>,  lat |-> 369921, lng |-> 1271128, population_density |-> 1800],
    [district |-> <<"si", "heung", "si">>,     lat |-> 373800, lng |-> 1268030, population_density |-> 5500],
    [district |-> <<"hwa", "seong", "si">>,    lat |-> 371996, lng |-> 1268312, population_density |-> 1500],
    [district |-> <<"gwang", "myeong", "si">>, lat |-> 374786, lng |-> 1268644, population_density |-> 17500],
    [district |-> <<"gun", "po", "si">>,       lat |-> 373616, lng |-> 1269351, population_density |-> 11000],
    [district |-> <<"gwang", "ju", "si">>,     lat |-> 374095, lng |-> 1272550, population_density |-> 1800],
    [district |-> <<"gim", "po", "si">>,       lat |-> 376152, lng |-> 1267156, population_density |-> 2800],
    [district |-> <<"pa", "ju", "si">>,        lat |-> 377126, lng |-> 1267800, population_density |-> 800] >>

\* ------------------------------------------------- heat-island estimator

\* base_temp = 28.0, in tenths of a degree.
BaseTemp == 280

\* <<population density, green ratio>> for which the double the code
\* computes lies above an exact tie of round(intensity, 2); for every other
\* tie of the model's inputs it lies below.
IntensityRoundsUp ==
    { <<1500, 0>>, <<5500, 290>>, <<7500, 0>>, <<8100, 0>>, <<8100, 50>>,
      <<8100, 150>>, <<17500, 0>>, <<17500, 400>>,
      <<5500, 80>>, <<5500, 350>>, <<7500, 100>>, <<7500, 200>>, <<8100, 100>>,
      <<8100, 200>>, <<8100, 350>>, <<17500, 100>>, <<17500, 200>> }

\* Intensities (hundredths) for which the double 28.0 + intensity lies above
\* the exact tie of round(temperature, 1).
TemperatureRoundsUp ==
    { 55, 75, 85, 105, 135, 155, 175, 185, 205, 235, 255, 275, 285 }

\* The floor of the estimate, whatever the density.
EstimatedGreenRatio_Floor(pop_density) == 50

\* green_ratio = max(5, 40 - (pop_density / 500)), in tenths of a percent.
\* Exact for the densities of the model, which are multiples of 50.
EstimatedGreenRatio(pop_density) == Max(50, 400 - pop_density \div 50)

\* The unrounded intensity, in 1/20000 of a degree:
\*   green_factor   = (30 - green_ratio) / 30
\*   density_factor = min(pop_density / 20000, 1.0)
\*   intensity      = 0.5 + green_factor * 1.5 + density_factor * 1.0
RawIntensity(pop_density, green_ratio) ==
    10000 + 100 * (300 - green_ratio) + Min(pop_density, 20000)

\* The clamp without its lower bound.
HeatIslandIntensity_NoFloor(pop_density, green_ratio) ==
    RoundDouble(Min(RawIntensity(pop_density, green_ratio), 60000),
                200, <<pop_density, green_ratio>> \in IntensityRoundsUp)

\* intensity = round(min(max(intensity, 0.5), 3.0), 2), in hundredths.
HeatIslandIntensity(pop_density, green_ratio) ==
    RoundDouble(Min(Max(RawIntensity(pop_density, green_ratio), 10000), 60000),
                200, <<pop_density, green_ratio>> \in IntensityRoundsUp)

\* The rounding of the intensity alone, base_temp left out.
Temperature_NoBase(intensity) ==
    RoundDouble(intensity, 10, intensity \in TemperatureRoundsUp)

\* round(base_temp + intensity, 1), in tenths.
Temperature(intensity) ==
    RoundDouble(BaseTemp * 10 + intensity, 10, intensity \in TemperatureRoundsUp)

\* One HeatIslandData, as both code paths build it.
HeatIslandData(d, intensity, green_ratio) ==
    [ latitude |-> d.lat,
      longitude |-> d.lng,
      temperature |-> Temperature(intensity),
      heat_island_intensity |-> intensity,
      district |-> d.district,
      green_coverage_ratio |-> Some(green_ratio) ]   \* round(green_ratio, 1)

\* The body of the loop of _generate_mock_heat_island_data for district d.
MockEstimate(d) ==
    LET green_ratio == EstimatedGreenRatio(d.population_density)
    IN  HeatIslandData(d, HeatIslandIntensity(d.population_density, green_ratio),
                       green_ratio)

\* The body of the loop of get_heat_island_data (live path) for district d,
\* whose green ratio green_stats supplies (15.0 when it has none).
LiveIntensity(pop_density, green_ratio) ==
    RoundDouble(Min(Max(10000 + 100 * (300 - green_ratio) + Min(pop_density, 20000),
                        10000), 60000),
                200, <<pop_density, green_ratio>> \in IntensityRoundsUp)

DefaultGreenRatio == 150

\* The live loop with the mock path's estimate in place of the default.
LiveEstimate_Estimated(d, known_ratio) ==
    LET green_ratio == IF known_ratio = None
                       THEN EstimatedGreenRatio(d.population_density)
                       ELSE Get(known_ratio)
    IN  HeatIslandData(d, LiveIntensity(d.population_density, green_ratio), green_ratio)

\* green_ratio = green_stats.get(district_name, 15.0)
LiveEstimate(d, known_ratio) ==
    LET green_ratio == IF known_ratio = None THEN DefaultGreenRatio ELSE Get(known_ratio)
    IN  HeatIslandData(d, LiveIntensity(d.population_density, green_ratio), green_ratio)

\* The dashboard's calculate_heat_island_data, which repeats the estimator
\* over its own copy of the district table (the same fifteen rows).
\* The density term left out.
DashboardIntensity_NoDensity(pop_density, green_ratio) ==
    RoundDouble(Min(Max(10000 + 100 * (300 - green_ratio), 10000), 60000),
                200, <<pop_density, green_ratio>> \in IntensityRoundsUp)

\* green_factor = (30 - green_ratio) / 30; density_factor = min(pop_density /
\* 20000, 1.0); intensity = round(min(max(0.5 + green_factor * 1.5 +
\* density_factor * 1.0, 0.5), 3.0), 2).
DashboardIntensity(pop_density, green_ratio) ==
    RoundDouble(Min(Max(10000 + 100 * (300 - green_ratio) + Min(pop_density, 20000),
                        10000), 60000),
                200, <<pop_density, green_ratio>> \in IntensityRoundsUp)

\* The body of the dashboard's loop for district d: the ratio computed from
\* the parks when the district has one, max(5, 40 - pop_density / 500) when
\* it has none.
DashboardEstimate(d, known_ratio) ==
    LET green_ratio == IF known_ratio = None
                       THEN Max(50, 400 - d.population_density \div 50)
                       ELSE Get(known_ratio)
    IN  HeatIslandData(d, DashboardIntensity(d.population_density, green_ratio),
                       green_ratio)

\* key=lambda x: x.heat_island_intensity
ByIntensity(heat_list) ==
    [i \in 1..Len(heat_list) |-> <<heat_list[i].heat_island_intensity, heat_list[i]>>]

\* districts = [d for d in GYEONGGI_DISTRICTS if district in d["district"]]
\* when a filter is given (a non-empty string), all of them otherwise.
FilterDistricts(district) ==
    IF district = None THEN GYEONGGI_DISTRICTS
    ELSE LET F[i \in 0..Len(GYEONGGI_DISTRICTS)] ==
                 IF i = 0 THEN <<>>
                 ELSE IF Contains(district, GYEONGGI_DISTRICTS[i].district)
                      THEN Append(F[i - 1], GYEONGGI_DISTRICTS[i])
                      ELSE F[i - 1]
         IN  F[Len(GYEONGGI_DISTRICTS)]

RECURSIVE MapMock(_)
MapMock(ds) == IF ds = <<>> THEN <<>> ELSE <<MockEstimate(Head(ds))>> \o MapMock(Tail(ds))

\* What _generate_mock_heat_island_data computes when it misses the cache:
\* the estimates of the filtered districts, sorted by descending intensity.
ComputeMockHeatIslandData(district) ==
    Elements(SortDesc(ByIntensity(MapMock(FilterDistricts(district)))))

\* ----------------------------------------------- the heat-island cache

\* cache_key = f"heat_{district or 'all'}", one string per character.
CacheKey(district) ==
    <<"h", "e", "a", "t", "_">> \o (IF district = None THEN <<"a", "l", "l">> ELSE district)

\* self._park_cache[key] = value
CacheStore(cache, key, value) ==
    [k \in DOMAIN cache \cup {key} |-> IF k = key THEN value ELSE cache[k]]

\* What _generate_mock_heat_island_data(district) returns with this cache:
\* the cached list on a hit, the computed one on a miss.
MockHeatIslandData(cache, district) ==
    IF CacheKey(district) \in DOMAIN cache THEN cache[CacheKey(district)]
    ELSE ComputeMockHeatIslandData(district)

\* The cache it leaves behind: a miss stores the computed list.
CacheAfter(cache, district) ==
    IF CacheKey(district) \in DOMAIN cache THEN cache
    ELSE CacheStore(cache, CacheKey(district), ComputeMockHeatIslandData(district))

\* The areas of lowest intensity: the sort without reverse=True.
CoolingPriorityAreas_Ascending(heat_list, top_n) ==
    Slice(Elements(SortDesc([i \in 1..Len(heat_list) |->
                                <<0 - heat_list[i].heat_island_intensity, heat_list[i]>>])),
          top_n)

\* ClimateService.get_cooling_priority_areas on what get_heat_island_data()
\* returned: sorted(heat_data, by intensity, reverse=True)[:top_n]
CoolingPriorityAreas(heat_list, top_n) ==
    Slice(Elements(SortDesc(ByIntensity(heat_list))), top_n)

\* ------------------------------------------------------- mission tables

TREE_PLANTING == "tree_planting"
GREEN_ROOF == "green_roof"
COOL_PAVEMENT == "cool_pavement"
WATER_FEATURE == "water_feature"
SHADE_STRUCTURE == "shade_structure"

\* MissionType, in declaration order.
MissionType == <<TREE_PLANTING, GREEN_ROOF, COOL_PAVEMENT, WATER_FEATURE, SHADE_STRUCTURE>>

MissionTypes == {MissionType[i] : i \in 1..Len(MissionType)}

RESIDENTIAL == "residential"
COMMERCIAL == "commercial"
INDUSTRIAL == "industrial"
MIXED == "mixed"
PARK_ADJACENT == "park_adjacent"

AreaCharacteristics == {RESIDENTIAL, COMMERCIAL, INDUSTRIAL, MIXED, PARK_ADJACENT}

\* MISSION_TEMPLATES, in insertion order.  A title or description template
\* is named by its solution and its position in the list.
MISSION_TEMPLATES == <<
    [ mission_type |-> TREE_PLANTING,
      titles |-> <<"tree_title_1", "tree_title_2", "tree_title_3", "tree_title_4">>,
      descriptions |-> <<"tree_desc_1", "tree_desc_2", "tree_desc_3">>,
      base_points |-> 50, base_difficulty |-> 2,
      cooling_effect_range |-> <<30, 80>>,
      suitable_for |-> {RESIDENTIAL, COMMERCIAL, MIXED} ],
    [ mission_type |-> GREEN_ROOF,
      titles |-> <<"roof_title_1", "roof_title_2", "roof_title_3">>,
      descriptions |-> <<"roof_desc_1", "roof_desc_2", "roof_desc_3">>,
      base_points |-> 100, base_difficulty |-> 4,
      cooling_effect_range |-> <<50, 150>>,
      suitable_for |-> {COMMERCIAL, INDUSTRIAL, MIXED} ],
    [ mission_type |-> COOL_PAVEMENT,
      titles |-> <<"pavement_title_1", "pavement_title_2", "pavement_title_3">>,
      descriptions |-> <<"pavement_desc_1", "pavement_desc_2", "pavement_desc_3">>,
      base_points |-> 80, base_difficulty |-> 3,
      cooling_effect_range |-> <<20, 50>>,
      suitable_for |-> {INDUSTRIAL, COMMERCIAL} ],
    [ mission_type |-> WATER_FEATURE,
      titles |-> <<"water_title_1", "water_title_2", "water_title_3">>,
      descriptions |-> <<"water_desc_1", "water_desc_2", "water_desc_3">>,
      base_points |-> 70, base_difficulty |-> 3,
      cooling_effect_range |-> <<20, 40>>,
      suitable_for |-> {COMMERCIAL, PARK_ADJACENT, RESIDENTIAL} ],
    [ mission_type |-> SHADE_STRUCTURE,
      titles |-> <<"shade_title_1", "shade_title_2", "shade_title_3">>,
      descriptions |-> <<"shade_desc_1", "shade_desc_2", "shade_desc_3">>,
      base_points |-> 30, base_difficulty |-> 1,
      cooling_effect_range |-> <<10, 30>>,
      suitable_for |-> {RESIDENTIAL, COMMERCIAL, MIXED} ] >>

\* The exception MISSION_TEMPLATES[mission_type] raises for a key it does
\* not have.
KeyError == "KeyError"

\* MISSION_TEMPLATES[mission_type]; a KeyError for any other key.
HasTemplate(mission_type) ==
    \E i \in 1..Len(MISSION_TEMPLATES) : MISSION_TEMPLATES[i].mission_type = mission_type

Template(mission_type) ==
    MISSION_TEMPLATES[CHOOSE i \in 1..Len(MISSION_TEMPLATES) :
                          MISSION_TEMPLATES[i].mission_type = mission_type]

\* -------------------------------------------------------- priority scorer

\* A truth value that is false for None only.
Truthy_NotNone(green) == green # None

\* Python's truth value of an Optional[list]: None and [] are both false.
Truthy(green) == green # None /\ Get(green) # <<>>

\* The exception of sum(...) / len(green_data) when len(green_data) is 0.
ZeroDivisionError == "ZeroDivisionError"

\* `if green_data:` lets the division by len(green_data) = 0 happen.
AverageRaises(green) == Truthy(green) /\ Len(Get(green)) = 0

\* sum(g.green_coverage_ratio for g in green_data), in tenths of a percent.
RECURSIVE SumGreenRatio(_)
SumGreenRatio(samples) ==
    IF samples = <<>> THEN 0
    ELSE Head(samples).green_coverage_ratio + SumGreenRatio(Tail(samples))

\* intensity_score = min(heat_island_intensity * 16, 40)
IntensityScore(h) ==
    Min(h.heat_island_intensity * 16 * (ScoreScale \div 100), 40 * ScoreScale)

\* The tiers without the one at 30: 5 from 28 up to 32.
TemperatureScore_NoTier30(h) ==
    IF h.temperature >= 350 THEN 20 * ScoreScale
    ELSE IF h.temperature >= 320 THEN 15 * ScoreScale
    ELSE IF h.temperature >= 280 THEN 5 * ScoreScale
    ELSE 0

\* 20 / 15 / 10 / 5 / 0 by the temperature tiers 35, 32, 30, 28.
TemperatureScore(h) ==
    IF h.temperature >= 350 THEN 20 * ScoreScale
    ELSE IF h.temperature >= 320 THEN 15 * ScoreScale
    ELSE IF h.temperature >= 300 THEN 10 * ScoreScale
    ELSE IF h.temperature >= 280 THEN 5 * ScoreScale
    ELSE 0

\* The green term without its floor at 0.
GreenScore_NoFloor(green) ==
    IF Truthy(green)
    THEN 20 * ScoreScale
         - (SumGreenRatio(Get(green)) * ScoreScale) \div (20 * Len(Get(green)))
    ELSE 15 * ScoreScale

\* The green term with its sign turned: avg_green_ratio * 0.5, at most 20.
GreenScore_Inverted(green) ==
    IF Truthy(green)
    THEN Min(20 * ScoreScale,
             (SumGreenRatio(Get(green)) * ScoreScale) \div (20 * Len(Get(green))))
    ELSE 15 * ScoreScale

\* max(0, 20 - avg_green_ratio * 0.5) with samples, 15 without.
\* avg * 0.5 = sum / (len * 20) percent, sum being in tenths.
GreenScore(green) ==
    IF Truthy(green)
    THEN Max(0, 20 * ScoreScale
                - (SumGreenRatio(Get(green)) * ScoreScale) \div (20 * Len(Get(green))))
    ELSE 15 * ScoreScale

\* The weather term without its wind part.
WeatherScore_HumidityOnly(weather) ==
    IF weather = None THEN 0
    ELSE IF Get(weather).humidity >= 70 THEN 10 * ScoreScale
    ELSE IF Get(weather).humidity >= 60 THEN 5 * ScoreScale ELSE 0

\* Humidity >= 70: 10, >= 60: 5; wind < 1.0: 10, < 2.0: 5; nothing without
\* a weather reading.
WeatherScore(weather) ==
    IF weather = None THEN 0
    ELSE (IF Get(weather).humidity >= 70 THEN 10 * ScoreScale
          ELSE IF Get(weather).humidity >= 60 THEN 5 * ScoreScale ELSE 0)
         + (IF Get(weather).wind_speed < 10 THEN 10 * ScoreScale
            ELSE IF Get(weather).wind_speed < 20 THEN 5 * ScoreScale ELSE 0)

\* MissionAgent._calculate_priority_score
CalculatePriorityScore(h, green, weather) ==
    Min(IntensityScore(h) + TemperatureScore(h) + GreenScore(green)
        + WeatherScore(weather), 100 * ScoreScale)

\* --------------------------------------------------------- area classifier

IndustrialKeywords == { <<"san", "eop">>, <<"gong", "dan">>, <<"dan", "ji">> }
CommercialKeywords ==
    { <<"sang", "eop">>, <<"yeok">>, <<"si", "jang">>, <<"baek", "hwa", "jeom">> }

\* The classifier with the commercial keywords tried before the industrial.
EstimateAreaCharacteristics_CommercialFirst(h, green) ==
    IF \E kw \in CommercialKeywords : Contains(kw, h.district) THEN COMMERCIAL
    ELSE IF \E kw \in IndustrialKeywords : Contains(kw, h.district) THEN INDUSTRIAL
    ELSE IF Truthy(green) /\ \E i \in 1..Len(Get(green)) : Get(green)[i].park_area > 5000
         THEN PARK_ADJACENT
    ELSE IF Truthy(green) /\ SumGreenRatio(Get(green)) > 300 * Len(Get(green))
         THEN RESIDENTIAL
    ELSE MIXED

\* MissionAgent._estimate_area_characteristics
EstimateAreaCharacteristics(h, green) ==
    IF \E kw \in IndustrialKeywords : Contains(kw, h.district) THEN INDUSTRIAL
    ELSE IF \E kw \in CommercialKeywords : Contains(kw, h.district) THEN COMMERCIAL
    ELSE IF Truthy(green) /\ \E i \in 1..Len(Get(green)) : Get(green)[i].park_area > 5000
         THEN PARK_ADJACENT
    ELSE IF Truthy(green) /\ SumGreenRatio(Get(green)) > 300 * Len(Get(green))
         THEN RESIDENTIAL
    ELSE MIXED

\* _estimate_area_characteristics reaches its average, which divides by 0:
\* no keyword returned before, and any(...) over no samples is false.
EstimateAreaCharacteristicsRaises(h, green) ==
    /\ ~\E kw \in IndustrialKeywords \cup CommercialKeywords : Contains(kw, h.district)
    /\ AverageRaises(green)

\* ----------------------------------------------------- solution recommender

\* The score with the two green bonuses as alternatives of the average alone:
\* below 15 % only the bonus of TREE_PLANTING is considered.
SolutionScore_OneGreenBonus(template, h, characteristics, green) ==
    LET mission_type == template.mission_type IN
      (IF characteristics \in template.suitable_for THEN 30 ELSE 0)
    + (IF h.heat_island_intensity >= 200
       THEN (IF mission_type \in {GREEN_ROOF, TREE_PLANTING} THEN 25 ELSE 0)
       ELSE IF h.heat_island_intensity >= 150
       THEN (IF mission_type \in {COOL_PAVEMENT, TREE_PLANTING} THEN 20 ELSE 0)
       ELSE (IF mission_type \in {SHADE_STRUCTURE, WATER_FEATURE} THEN 15 ELSE 0))
    + (IF Truthy(green)
       THEN (IF SumGreenRatio(Get(green)) < 150 * Len(Get(green))
             THEN (IF mission_type = TREE_PLANTING THEN 20 ELSE 0)
             ELSE 0)
       ELSE 0)

\* The suitability score of one solution (the body of the loop over
\* MISSION_TEMPLATES.items()).
SolutionScore(template, h, characteristics, green) ==
    LET mission_type == template.mission_type IN
      (IF characteristics \in template.suitable_for THEN 30 ELSE 0)
    + (IF h.heat_island_intensity >= 200
       THEN (IF mission_type \in {GREEN_ROOF, TREE_PLANTING} THEN 25 ELSE 0)
       ELSE IF h.heat_island_intensity >= 150
       THEN (IF mission_type \in {COOL_PAVEMENT, TREE_PLANTING} THEN 20 ELSE 0)
       ELSE (IF mission_type \in {SHADE_STRUCTURE, WATER_FEATURE} THEN 15 ELSE 0))
    + (IF Truthy(green)
       THEN (IF SumGreenRatio(Get(green)) < 150 * Len(Get(green))
                /\ mission_type = TREE_PLANTING
             THEN 20
             ELSE IF SumGreenRatio(Get(green)) < 100 * Len(Get(green))
                     /\ mission_type = GREEN_ROOF
             THEN 15 ELSE 0)
       ELSE 0)

\* solution_scores.items(): one <<mission_type, score>> per template, in the
\* insertion order of MISSION_TEMPLATES.
SolutionScores(h, characteristics, green) ==
    [i \in 1..Len(MISSION_TEMPLATES) |->
        <<MISSION_TEMPLATES[i].mission_type,
          SolutionScore(MISSION_TEMPLATES[i], h, characteristics, green)>>]

\* key=lambda x: x[1]
ByScore(items) == [i \in 1..Len(items) |-> <<items[i][2], items[i]>>]

\* A ranking that leaves out the solutions that scored nothing.
SortedSolutions_DropZero(h, characteristics, green) ==
    LET items == SolutionScores(h, characteristics, green)
        F[i \in 0..Len(items)] ==
            IF i = 0 THEN <<>>
            ELSE IF items[i][2] > 0 THEN Append(F[i - 1], items[i]) ELSE F[i - 1]
    IN  Elements(SortDesc(ByScore(F[Len(items)])))

\* sorted(solution_scores.items(), key=lambda x: x[1], reverse=True)
SortedSolutions(h, characteristics, green) ==
    Elements(SortDesc(ByScore(SolutionScores(h, characteristics, green))))

\* How many solutions the recommender hands out: sorted_solutions[:3].
RecommendCount == 3

\* MissionAgent._recommend_solutions
RecommendSolutions(h, characteristics, green) ==
    LET sorted_solutions == Slice(SortedSolutions(h, characteristics, green),
                                  RecommendCount)
    IN  [i \in 1..Len(sorted_solutions) |-> sorted_solutions[i][1]]

\* -------------------------------------------------------- mission generator

\* <<min_effect, max_effect, priority score in tenths>> for which the double
\* the code computes lies above an exact tie of round(cooling_effect, 2); for
\* every other tie of the model's inputs it lies below.
CoolingRoundsUp ==
    { <<10, 30, 475>>, <<10, 30, 825>>, <<20, 40, 475>>, <<20, 40, 625>>,
      <<20, 50, 650>>, <<50, 150, 255>>,
      <<50, 150, 405>>, <<50, 150, 445>>, <<50, 150, 465>>, <<50, 150, 645>>,
      <<50, 150, 725>>, <<50, 150, 745>>,
      <<20, 50, 250>>, <<30, 80, 670>>, <<30, 80, 690>>, <<30, 80, 770>> }

\* The cooling effect with the score taken as a fraction of 10.
CoolingEffect_PerTen(template, priority_score) ==
    LET min_effect == template.cooling_effect_range[1]
        max_effect == template.cooling_effect_range[2]
    IN  RoundDouble(min_effect * 10 * ScoreScale
                    + priority_score * (max_effect - min_effect), 10 * ScoreScale,
                    <<min_effect, max_effect, (priority_score * 10) \div ScoreScale>>
                        \in CoolingRoundsUp)

\* cooling_effect = round(min_effect + (priority_score / 100)
\*                                     * (max_effect - min_effect), 2)
\* in hundredths of a degree.
CoolingEffect(template, priority_score) ==
    LET min_effect == template.cooling_effect_range[1]
        max_effect == template.cooling_effect_range[2]
    IN  RoundDouble(min_effect * 100 * ScoreScale
                    + priority_score * (max_effect - min_effect), 100 * ScoreScale,
                    <<min_effect, max_effect, (priority_score * 10) \div ScoreScale>>
                        \in CoolingRoundsUp)

\* points_reward = int(base_points * (1 + priority_score / 200))
\* <<base_points, priority score>> for which the double
\* base_points * (1 + priority_score / 200) lies just below the integer the
\* exact product is (100 * 1.15 is 114.99999999999999); for every other
\* score of the model the double and the exact product have the same integer
\* part.
PointsTruncatesBelow == { <<100, 30 * ScoreScale>> }

\* points_reward = int(base_points * (1 + analysis.priority_score / 200))
PointsReward(template, priority_score) ==
    LET exact == (template.base_points * (200 * ScoreScale + priority_score))
                     \div (200 * ScoreScale)
    IN  IF <<template.base_points, priority_score>> \in PointsTruncatesBelow
        THEN exact - 1 ELSE exact

\* REASONING_TEMPLATES: one text for each intensity tier, each named here by
\* the level its heading states (severe, caution, good).
REASONING_TEMPLATES ==
    [ high_intensity |-> "analysis_result_severe",
      medium_intensity |-> "analysis_result_caution",
      low_intensity |-> "analysis_result_good" ]

\* The literal text of the f-string of _generate_mission_reasoning, named by
\* its heading.
MissionReasoningText == "ai_mission_generation_analysis"

\* MissionAgent._generate_mission_reasoning: one text for every intensity,
\* filled with these values (and the time of day, left out).
GenerateMissionReasoning(h, analysis, mission_type, cooling_effect) ==
    [ template |-> MissionReasoningText,
      district |-> h.district,
      latitude |-> h.latitude,
      longitude |-> h.longitude,
      temperature |-> h.temperature,
      intensity |-> h.heat_island_intensity,
      priority_score |-> analysis.priority_score,
      solution_name |-> mission_type,
      solution_reason |-> mission_type,
      cooling_effect |-> cooling_effect ]

\* What analyze_area computes once the provider has answered with green
\* samples and a weather reading.
Analysis(h, green, weather) ==
    LET characteristics == EstimateAreaCharacteristics(h, green) IN
    [ green_space_data |-> green,
      weather_data |-> weather,
      priority_score |-> CalculatePriorityScore(h, green, weather),
      characteristics |-> characteristics,
      recommended_solutions |-> RecommendSolutions(h, characteristics, green) ]

\* Any of the recommended solutions, not the first.
MissionTypeChoices_AnyRecommended(requested, analysis) ==
    IF requested = None
    THEN {analysis.recommended_solutions[i] : i \in 1..Len(analysis.recommended_solutions)}
    ELSE {Get(requested)}

\* An unknown solution replaced by the recommended one.
MissionTypeChoices_KnownOrRecommended(requested, analysis) ==
    IF requested = None \/ ~HasTemplate(Get(requested))
    THEN {analysis.recommended_solutions[1]}
    ELSE {Get(requested)}

\* if mission_type is None: mission_type = analysis.recommended_solutions[0]
\* The set of types the mission may get: always one.
MissionTypeChoices(requested, analysis) ==
    IF requested = None THEN {analysis.recommended_solutions[1]} ELSE {Get(requested)}

\* random.choice(template["titles"]): any of the solution's titles.
TitleChoices(template) == {template.titles[i] : i \in 1..Len(template.titles)}

\* random.choice(template["descriptions"])
DescriptionChoices(template) ==
    {template.descriptions[i] : i \in 1..Len(template.descriptions)}

\* The GeneratedMission generate_mission builds from the analysis, the
\* solution and the title and description templates it drew.
ComposeMission(h, analysis, mission_type, title, description) ==
    LET template == Template(mission_type)
        cooling_effect == CoolingEffect(template, analysis.priority_score)
    IN  [ title |-> <<title, h.district>>,
          description |-> <<description, h.district>>,
          mission_type |-> mission_type,
          points_reward |-> PointsReward(template, analysis.priority_score),
          difficulty |-> template.base_difficulty,
          estimated_cooling_effect |-> cooling_effect,
          priority_score |-> analysis.priority_score,
          ai_reasoning |-> GenerateMissionReasoning(h, analysis, mission_type,
                                                    cooling_effect),
          latitude |-> h.latitude,
          longitude |-> h.longitude,
          district |-> h.district ]

\* The missions generate_mission builds for one solution: one for every
\* title and description random.choice can draw.
MissionsOfType(h, analysis, mission_type) ==
    { ComposeMission(h, analysis, mission_type, title, description) :
        title \in TitleChoices(Template(mission_type)),
        description \in DescriptionChoices(Template(mission_type)) }

\* Every mission generate_mission(h, requested) can return when the
\* provider answers analyze_area with `green` and `weather`.
MissionsFor(h, requested, green, weather) ==
    LET analysis == Analysis(h, green, weather) IN
    UNION { MissionsOfType(h, analysis, mission_type) :
                mission_type \in MissionTypeChoices(requested, analysis) }

\* ------------------------------------------------------ inputs of the model

Suwon == GYEONGGI_DISTRICTS[1]

\* Densities beyond the table: none, the cap of density_factor, above it,
\* and a negative one.
DensityInputs == {0 - 1000, 0, 20000, 40000}

\* The districts the estimator is applied to: the table's, and Suwon's
\* coordinates with each extra density.
DistrictInputs ==
    {GYEONGGI_DISTRICTS[i] : i \in 1..Len(GYEONGGI_DISTRICTS)}
    \cup {[Suwon EXCEPT !.population_density = d] : d \in DensityInputs}

\* Known green-coverage ratios (tenths of a percent): 0 %, the clamp bounds
\* 5 % and 40 % of get_district_green_stats, the default 15 %, 100 %.
GreenRatioInputs == {0, 50, 150, 400, 1000}

\* District names: a table name, an industrial one, a commercial one, and
\* one with an industrial and a commercial keyword.
NameInputs ==
    { <<"su", "won", "si">>,
      <<"ban", "wol", "san", "eop", "dan", "ji">>,
      <<"su", "won", "yeok">>,
      <<"gong", "dan", "yeok">> }

\* Intensities (hundredths) at and beside the tier bounds 1.5 and 2.0 and
\* the clamp bounds 0.5 and 3.0.
IntensityInputs == {50, 149, 150, 199, 200, 300}

\* Estimates built by hand: every intensity tier with every temperature
\* tier that differs in one of the two from (2.0, 30.0) or is an extreme,
\* and every kind of district name.
HandEstimates ==
    { h \in { [ latitude |-> Suwon.lat, longitude |-> Suwon.lng, temperature |-> t,
        heat_island_intensity |-> i, district |-> Suwon.district,
        green_coverage_ratio |-> None ] :
        i \in IntensityInputs, t \in {279, 280, 300, 320, 350} } :
        \/ h.heat_island_intensity = 200
        \/ h.temperature = 300
        \/ h.heat_island_intensity = 300 /\ h.temperature = 350
        \/ h.heat_island_intensity = 50 /\ h.temperature = 279 }
    \cup
    { [ latitude |-> Suwon.lat, longitude |-> Suwon.lng, temperature |-> 300,
        heat_island_intensity |-> 200, district |-> n,
        green_coverage_ratio |-> None ] : n \in NameInputs }

\* An estimate with intensity 2.74 and temperature 30.7.
ScenarioEstimate ==
    [ latitude |-> Suwon.lat, longitude |-> Suwon.lng, temperature |-> 307,
      heat_island_intensity |-> 274, district |-> Suwon.district,
      green_coverage_ratio |-> None ]

\* The estimates the engine is applied to: those, and the estimator's own
\* for Suwon (1.47), Yongin (0.5), Bucheon (2.37), Ansan (1.21), Siheung
\* (0.83) and Gwangmyeong (2.62).
EstimateInputs ==
    HandEstimates \cup {ScenarioEstimate}
    \cup {MockEstimate(GYEONGGI_DISTRICTS[i]) : i \in {1, 4, 5, 6, 9, 11}}

\* Estimates of the live path at the ends of its range and at the tier
\* bound 30.0 C: intensity 3.0 (no green, density above the cap), 0.5 (all
\* green, no density) and 2.0 (no green, no density).
ExtremeEstimates ==
    { LiveEstimate([Suwon EXCEPT !.population_density = 40000], Some(0)),
      LiveEstimate([Suwon EXCEPT !.population_density = 0], Some(1000)),
      LiveEstimate([Suwon EXCEPT !.population_density = 0], Some(0)) }

\* A GreenSpaceData, reduced to the two fields the engine reads.
GreenSpaceData(ratio, area) == [green_coverage_ratio |-> ratio, park_area |-> area]

\* Averages of one or two of these reach the thresholds 10 % and 15 %
\* themselves, both sides of 10 %, 15 %, 30 % and 40 %, and 100 %; one has
\* a park area above 5000.
SampleInputs ==
    { GreenSpaceData(50, 1000), GreenSpaceData(150, 6000), GreenSpaceData(1000, 1000) }

\* No samples, an empty list, and every list of 1..MaxSamples samples.
GreenInputs ==
    {None} \cup {Some(l) : l \in UNION {[1..n -> SampleInputs] : n \in 0..MaxSamples}}

WeatherData(t, h, w) == [temperature |-> t, humidity |-> h, wind_speed |-> w]

\* ClimateService._generate_mock_weather_data: 30.0 C, 65 %, 2.5 m/s.
MockWeatherData == WeatherData(300, 65, 25)

WeatherInputs ==
    {None, Some(MockWeatherData), Some(WeatherData(330, 70, 5)),
     Some(WeatherData(250, 59, 15))}

\* ---------------------------------------------------- estimator, applied

NoEstimate ==
    [ latitude |-> 0, longitude |-> 0, temperature |-> 0, heat_island_intensity |-> 0,
      district |-> <<>>, green_coverage_ratio |-> None ]

InitEstimator ==
    /\ heat_data = NoEstimate
    /\ green_data = None
    /\ weather_data = None
    /\ op = "none"
    /\ args = <<>>
    /\ result = <<>>
    /\ raised = NotRaised
    /\ park_cache = <<>>
    /\ priority_areas = <<>>
    /\ missions = <<>>
    /\ use_mock = TRUE
    /\ district_park_stats = <<>>
    /\ awaiting = 0
    /\ mission_table = <<>>

\* One pass of the loop of _generate_mock_heat_island_data.
EstimateMock ==
    \E d \in DistrictInputs :
        /\ op' = "estimate_mock"
        /\ args' = [population_density |-> d.population_density, green_ratio |-> None]
        /\ result' = MockEstimate(d)
        /\ UNCHANGED <<mission_table, awaiting, use_mock, district_park_stats, heat_data, green_data, weather_data, raised, park_cache, priority_areas, missions>>

\* One pass of the loop of get_heat_island_data, green_stats holding a ratio
\* for the district or none.
EstimateLive ==
    \E d \in DistrictInputs, g \in {None} \cup {Some(r) : r \in GreenRatioInputs} :
        /\ op' = "estimate_live"
        /\ args' = [population_density |-> d.population_density, green_ratio |-> g]
        /\ result' = LiveEstimate(d, g)
        /\ UNCHANGED <<mission_table, awaiting, use_mock, district_park_stats, heat_data, green_data, weather_data, raised, park_cache, priority_areas, missions>>

\* One pass of the loop of the dashboard's calculate_heat_island_data, the
\* parks giving a ratio for the district or none.
EstimateDashboard ==
    \E d \in DistrictInputs, g \in {None} \cup {Some(r) : r \in GreenRatioInputs} :
        /\ op' = "estimate_dashboard"
        /\ args' = [population_density |-> d.population_density, green_ratio |-> g]
        /\ result' = DashboardEstimate(d, g)
        /\ UNCHANGED <<mission_table, awaiting, use_mock, district_park_stats, heat_data, green_data, weather_data, raised, park_cache, priority_areas, missions>>

NextEstimator == EstimateMock \/ EstimateLive \/ EstimateDashboard

SpecEstimator == InitEstimator /\ [][NextEstimator]_vars

\* ------------------------------------------------------- engine, applied

InitEngine ==
    /\ heat_data \in EstimateInputs \cup ExtremeEstimates
    /\ green_data \in GreenInputs
    /\ weather_data \in WeatherInputs
    /\ op = "none"
    /\ args = <<>>
    /\ result = <<>>
    /\ raised = NotRaised
    /\ park_cache = <<>>
    /\ priority_areas = <<>>
    /\ missions = <<>>
    /\ use_mock = TRUE
    /\ district_park_stats = <<>>
    /\ awaiting = 0
    /\ mission_table = <<>>

Score ==
    /\ op' = "score"
    /\ args' = <<>>
    /\ IF AverageRaises(green_data)
       THEN /\ raised' = ZeroDivisionError
            /\ result' = <<>>
       ELSE /\ raised' = NotRaised
            /\ result' = CalculatePriorityScore(heat_data, green_data, weather_data)
    /\ UNCHANGED <<mission_table, awaiting, use_mock, district_park_stats, heat_data, green_data, weather_data, park_cache, priority_areas, missions>>

Classify ==
    /\ op' = "classify"
    /\ args' = <<>>
    /\ IF EstimateAreaCharacteristicsRaises(heat_data, green_data)
       THEN /\ raised' = ZeroDivisionError
            /\ result' = <<>>
       ELSE /\ raised' = NotRaised
            /\ result' = EstimateAreaCharacteristics(heat_data, green_data)
    /\ UNCHANGED <<mission_table, awaiting, use_mock, district_park_stats, heat_data, green_data, weather_data, park_cache, priority_areas, missions>>

Recommend ==
    \E c \in AreaCharacteristics :
        /\ op' = "recommend"
        /\ args' = c
        /\ IF AverageRaises(green_data)
           THEN /\ raised' = ZeroDivisionError
                /\ result' = <<>>
           ELSE /\ raised' = NotRaised
                /\ result' = RecommendSolutions(heat_data, c, green_data)
        /\ UNCHANGED <<mission_table, awaiting, use_mock, district_park_stats, heat_data, green_data, weather_data, park_cache, priority_areas, missions>>

NextEngine == Score \/ Classify \/ Recommend

SpecEngine == InitEngine /\ [][NextEngine]_vars

\* --------------------------------------- the climate router's service

\* District filters of a request: none, a district's name, a part of two
\* names, a part of every name, the word "all", a name no district has.
FilterInputs ==
    { None, <<"su", "won", "si">>, <<"gwang">>, <<"si">>, <<"a", "l", "l">>,
      <<"gang", "nam">> }

\* climate_service = ClimateService(), in mock mode: an empty cache.
Init ==
    /\ heat_data = NoEstimate
    /\ green_data = None
    /\ weather_data = None
    /\ op = "none"
    /\ args = <<>>
    /\ result = <<>>
    /\ raised = NotRaised
    /\ park_cache = <<>>
    /\ priority_areas = <<>>
    /\ missions = <<>>
    /\ use_mock = TRUE
    /\ district_park_stats = <<>>
    /\ awaiting = 0
    /\ mission_table = <<>>

\* GET /climate/heat-island: climate_service.get_heat_island_data(district),
\* which in mock mode is _generate_mock_heat_island_data(district).
GetHeatIslandData ==
    \E district \in FilterInputs :
        /\ op' = "get_heat_island_data"
        /\ args' = district
        /\ result' = MockHeatIslandData(park_cache, district)
        /\ park_cache' = CacheAfter(park_cache, district)
        /\ UNCHANGED <<mission_table, awaiting, use_mock, district_park_stats, heat_data, green_data, weather_data, raised, priority_areas, missions>>

\* GET /climate/priority-areas, top_n validated by the router (ge=1).
GetCoolingPriorityAreas ==
    \E top_n \in 1..MaxTopN :
        /\ op' = "get_cooling_priority_areas"
        /\ args' = top_n
        /\ result' = CoolingPriorityAreas(MockHeatIslandData(park_cache, None), top_n)
        /\ park_cache' = CacheAfter(park_cache, None)
        /\ UNCHANGED <<mission_table, awaiting, use_mock, district_park_stats, heat_data, green_data, weather_data, raised, priority_areas, missions>>

Next == GetHeatIslandData \/ GetCoolingPriorityAreas

Spec == Init /\ [][Next]_vars

\* ------------------------------------------------- the mission agent

\* Answers of _generate_mock_green_space_data: 3 to 5 samples with ratios in
\* [5, 40] % and park areas in [100, 10000] m2.  Their averages are 5 %,
\* 25 % with a park above 5000 m2, 40 %, and 9.16 %, with which the first
\* priority area scores what the second scores with 5 %.
MockGreenChoices ==
    { <<GreenSpaceData(50, 1000), GreenSpaceData(50, 1000), GreenSpaceData(50, 1000)>>,
      <<GreenSpaceData(100, 6000), GreenSpaceData(200, 1000),
        GreenSpaceData(300, 1000), GreenSpaceData(400, 1000)>>,
      <<GreenSpaceData(400, 1000), GreenSpaceData(400, 1000), GreenSpaceData(400, 1000),
        GreenSpaceData(400, 1000), GreenSpaceData(400, 1000)>>,
      <<GreenSpaceData(50, 1000), GreenSpaceData(50, 1000), GreenSpaceData(50, 1000),
        GreenSpaceData(50, 1000), GreenSpaceData(258, 1000)>> }

\* The lists generate_mission is applied to: those, and four samples of
\* 16.0 %, which with the estimate for Yongin (0.5, 28.5 C) score 30.0.
AgentGreenChoices ==
    MockGreenChoices
    \cup { <<GreenSpaceData(160, 1000), GreenSpaceData(160, 1000),
             GreenSpaceData(160, 1000), GreenSpaceData(160, 1000)>> }

\* A key MISSION_TEMPLATES does not have.
RAIN_GARDEN == "rain_garden"

\* mission_type of a request: none, each solution, an unknown one.
RequestedInputs == {None} \cup {Some(ty) : ty \in MissionTypes \cup {RAIN_GARDEN}}

\* Every mission generate_mission(h, requested) can return in mock mode.
MockMissionsFor(h, requested) ==
    UNION { MissionsFor(h, requested, Some(green), Some(MockWeatherData)) :
                green \in MockGreenChoices }

\* heat_data and args are the arguments generate_mission is called with;
\* the agent is mission_agent = MissionAgent(use_llm=False), in mock mode.
InitAgent ==
    /\ heat_data \in EstimateInputs
    /\ args \in RequestedInputs
    /\ green_data = None
    /\ weather_data = None
    /\ op = "none"
    /\ result = <<>>
    /\ raised = NotRaised
    /\ park_cache = <<>>
    /\ priority_areas = <<>>
    /\ missions = <<>>
    /\ use_mock = TRUE
    /\ district_park_stats = <<>>
    /\ awaiting = 0
    /\ mission_table = <<>>

\* MissionAgent.generate_mission(heat_data, args): the analysis, the
\* solution, the lookup of its template (a KeyError when it has none), the
\* mission.
GenerateMission ==
    /\ op' = "generate_mission"
    /\ \E green \in AgentGreenChoices :
        LET analysis == Analysis(heat_data, Some(green), Some(MockWeatherData))
        IN  \E mission_type \in MissionTypeChoices(args, analysis) :
                IF ~HasTemplate(mission_type)
                THEN /\ raised' = KeyError
                     /\ result' = <<>>
                ELSE /\ raised' = NotRaised
                     /\ result' \in MissionsOfType(heat_data, analysis, mission_type)
    /\ UNCHANGED <<mission_table, awaiting, use_mock, district_park_stats, heat_data, args, green_data, weather_data, park_cache,
                   priority_areas, missions>>

NextAgent == GenerateMission

SpecAgent == InitAgent /\ [][NextAgent]_vars

\* --------------------------------------------- generate_mission, repeated

MaxCalls == 2       \* calls of generate_mission with the same arguments

\* The estimates generate_mission is called with again and again: the
\* estimator's for Suwon, and one of intensity 2.0 at 30.0 C.
RepeatEstimates ==
    { MockEstimate(Suwon),
      [ latitude |-> Suwon.lat, longitude |-> Suwon.lng, temperature |-> 300,
        heat_island_intensity |-> 200, district |-> Suwon.district,
        green_coverage_ratio |-> None ] }

\* heat_data and args are the arguments of every call; green_data and
\* result list, call by call, the provider's samples and the mission.
InitRepeat ==
    /\ heat_data \in RepeatEstimates
    /\ args \in {None, Some(GREEN_ROOF)}
    /\ green_data = <<>>
    /\ weather_data = Some(MockWeatherData)
    /\ op = "none"
    /\ result = <<>>
    /\ raised = NotRaised
    /\ park_cache = <<>>
    /\ priority_areas = <<>>
    /\ missions = <<>>
    /\ use_mock = TRUE
    /\ district_park_stats = <<>>
    /\ awaiting = 0
    /\ mission_table = <<>>

\* One more call of generate_mission(heat_data, args).
GenerateMissionAgain ==
    /\ Len(result) < MaxCalls
    /\ \E green \in MockGreenChoices :
           /\ green_data' = Append(green_data, green)
           /\ \E m \in MissionsFor(heat_data, args, Some(green), weather_data) :
                  result' = Append(result, m)
    /\ op' = "generate_mission"
    /\ UNCHANGED <<mission_table, awaiting, use_mock, district_park_stats, heat_data, args, weather_data, raised, park_cache,
                   priority_areas, missions>>

NextRepeat == GenerateMissionAgain

SpecRepeat == InitRepeat /\ [][NextRepeat]_vars

\* ------------------------------------------------ generate_missions_batch

\* top_n of a batch: 0..MaxTopN, and the negative numbers that leave as
\* many areas in sorted_data[:top_n].
TopNInputs ==
    (0..MaxTopN) \cup {k - Len(GYEONGGI_DISTRICTS) : k \in 0..MaxTopN}

\* The sort key negated: the missions in ascending order of score.
ByPriorityScore_Ascending(ms) ==
    [i \in 1..Len(ms) |-> <<0 - ms[i].priority_score, ms[i]>>]

\* key=lambda m: m.priority_score
ByPriorityScore(ms) == [i \in 1..Len(ms) |-> <<ms[i].priority_score, ms[i]>>]

InitBatch ==
    /\ heat_data = NoEstimate
    /\ green_data = None
    /\ weather_data = None
    /\ op = "none"
    /\ args = <<>>
    /\ result = <<>>
    /\ raised = NotRaised
    /\ park_cache = <<>>
    /\ priority_areas = <<>>
    /\ missions = <<>>
    /\ use_mock = TRUE
    /\ district_park_stats = <<>>
    /\ awaiting = 0
    /\ mission_table = <<>>

\* missions.sort(key=lambda m: m.priority_score, reverse=True); return missions
BatchReturn(collected) ==
    /\ op' = "generate_missions_batch"
    /\ result' = Elements(SortDesc(ByPriorityScore(collected)))
    /\ raised' = NotRaised
    /\ priority_areas' = <<>>
    /\ missions' = <<>>

\* MissionAgent.generate_missions_batch(top_n) up to its loop: the areas
\* get_cooling_priority_areas(top_n) returns; with none of them, the
\* sort and the return.
GenerateMissionsBatch ==
    /\ op # "generate_missions_batch_loop"
    /\ \E top_n \in TopNInputs :
        LET areas == CoolingPriorityAreas(MockHeatIslandData(park_cache, None), top_n)
        IN  /\ args' = [top_n |-> top_n]
            /\ park_cache' = CacheAfter(park_cache, None)
            /\ IF areas = <<>>
               THEN BatchReturn(<<>>)
               ELSE /\ op' = "generate_missions_batch_loop"
                    /\ priority_areas' = areas
                    /\ missions' = <<>>
                    /\ result' = <<>>          \* nothing returned yet
                    /\ raised' = NotRaised
    /\ UNCHANGED <<mission_table, awaiting, use_mock, district_park_stats, heat_data, green_data, weather_data>>

\* One pass of its loop: mission = await self.generate_mission(heat_data);
\* missions.append(mission).  After the last area, the sort and the return.
GenerateMissionsBatchLoop ==
    /\ op = "generate_missions_batch_loop"
    /\ \E mission \in MockMissionsFor(Head(priority_areas), None) :
           IF Tail(priority_areas) = <<>>
           THEN BatchReturn(Append(missions, mission))
           ELSE /\ missions' = Append(missions, mission)
                /\ priority_areas' = Tail(priority_areas)
                /\ UNCHANGED <<op, result, raised>>
    /\ UNCHANGED <<mission_table, awaiting, use_mock, district_park_stats, heat_data, green_data, weather_data, args, park_cache>>

NextBatch == GenerateMissionsBatch \/ GenerateMissionsBatchLoop

SpecBatch == InitBatch /\ [][NextBatch]_vars

\* ------------------------------------------ the service and its provider

\* One ParkData; area is None or a number of m2.  The other optional
\* fields are not read by the service.
ParkData(uid, sgg_nm, area, latitude, longitude) ==
    [uid |-> uid, sgg_nm |-> sgg_nm, area |-> area,
     latitude |-> latitude, longitude |-> longitude]

\* str(i) for the indices of a district's mock parks.
Digits == <<"0", "1", "2", "3", "4">>

\* The parks _generate_mock_park_data makes for one district: `count` parks
\* (random.randint(2, 5)) with uid f"{district}_{i}", `area` m2
\* (random.uniform(5000, 50000)), `offset` away from the district's
\* coordinates (random.uniform(-0.02, 0.02) degrees).
MockParksOf(d, count, area, offset) ==
    [i \in 1..count |->
        ParkData(d.district \o <<"_", Digits[i]>>, d.district, Some(area),
                 d.lat + offset, d.lng + offset)]

\* ClimateService._generate_mock_park_data(district), the random draws
\* being the same for every district.
MockParkData(district, count, area, offset) ==
    LET ds == FilterDistricts(district)
    IN  [k \in 1..(Len(ds) * count) |->
            MockParksOf(ds[((k - 1) \div count) + 1], count, area, offset)[((k - 1) % count) + 1]]

\* The draws of the model: the fewest and smallest parks, the most and
\* largest, and parks at the district's coordinates.
MockParkDraws == { <<2, 5000, 0 - 200>>, <<5, 50000, 200>>, <<3, 20000, 0>> }

MockParkChoices(district) ==
    { MockParkData(district, draw[1], draw[2], draw[3]) : draw \in MockParkDraws }

\* What the request to the provider comes to: _wfs_request raises (a
\* transport error, an HTTP error status, a body that is not JSON, a feature
\* ParkData rejects), or the loop builds `parks` from the features.
WfsOutcome(raises, parks) == [raises |-> raises, parks |-> parks]

\* Parks a provider answers with: a park of 4 km2 in Suwon, 500 m from its
\* coordinates; a second one there; a park without area in Seongnam; a
\* park of 40 km2 in Goyang.
ProviderParks ==
    LET p1 == ParkData(<<"P", "1">>, GYEONGGI_DISTRICTS[1].district, Some(4000000),
                       GYEONGGI_DISTRICTS[1].lat + 50, GYEONGGI_DISTRICTS[1].lng)
        p2 == ParkData(<<"P", "2">>, GYEONGGI_DISTRICTS[1].district, Some(4000000),
                       GYEONGGI_DISTRICTS[1].lat, GYEONGGI_DISTRICTS[1].lng + 500)
        p3 == ParkData(<<"P", "3">>, GYEONGGI_DISTRICTS[2].district, None,
                       GYEONGGI_DISTRICTS[2].lat, GYEONGGI_DISTRICTS[2].lng)
        p4 == ParkData(<<"P", "4">>, GYEONGGI_DISTRICTS[3].district, Some(40000000),
                       GYEONGGI_DISTRICTS[3].lat, GYEONGGI_DISTRICTS[3].lng)
    IN  { <<>>, <<p1>>, <<p1, p2>>, <<p3, p4>> }

WfsOutcomes == {WfsOutcome(TRUE, <<>>)} \cup {WfsOutcome(FALSE, parks) : parks \in ProviderParks}

\* The try of get_park_data without its except: whatever the loop built.
LiveParkData_NoFallback(outcome, mock_parks) == outcome.parks

\* get_park_data in live mode: the parks built from the response, and
\* _generate_mock_park_data(district) when anything in the try raised.
LiveParkData(outcome, mock_parks) ==
    IF outcome.raises THEN mock_parks ELSE outcome.parks

\* area = park.area or 10000, summed over the parks of one district.
\* (Summed by halves of the list.)
RECURSIVE DistrictArea(_, _)
DistrictArea(parks, sgg_nm) ==
    IF parks = <<>> THEN 0
    ELSE IF Len(parks) = 1
    THEN (IF parks[1].sgg_nm # sgg_nm THEN 0
          ELSE IF parks[1].area = None \/ Get(parks[1].area) = 0 THEN 10000
          ELSE Get(parks[1].area))
    ELSE DistrictArea(SubSeq(parks, 1, Len(parks) \div 2), sgg_nm)
         + DistrictArea(SubSeq(parks, Len(parks) \div 2 + 1, Len(parks)), sgg_nm)

\* avg_district_area = 40_000_000
AvgDistrictArea == 40000000

\* The clamp without its upper bound.
DistrictGreenRatio_NoCeiling(total_park_area) ==
    Max(total_park_area \div (AvgDistrictArea \div 1000), 50)

\* min(max((total_park_area / avg_district_area) * 100, 5.0), 40.0), in
\* tenths of a percent.  Exact for the totals of the model, which give a
\* whole number of tenths or fall outside the clamp.
DistrictGreenRatio(total_park_area) ==
    Min(Max(total_park_area \div (AvgDistrictArea \div 1000), 50), 400)

\* The statistics get_district_green_stats computes from `parks`.
ParkStats(parks) ==
    IF parks = <<>> THEN <<>>
    ELSE [sgg_nm \in {parks[i].sgg_nm : i \in 1..Len(parks)} |->
              DistrictGreenRatio(DistrictArea(parks, sgg_nm))]

\* {d["district"]: random.uniform(8, 35) for d in GYEONGGI_DISTRICTS}, the
\* draw being the same for every district: 8 %, 20 %, 35 %.
RandomStatsDraws == {80, 200, 350}

RandomStats(ratio) ==
    [sgg_nm \in {GYEONGGI_DISTRICTS[i].district : i \in 1..Len(GYEONGGI_DISTRICTS)} |-> ratio]

\* self._district_park_stats once get_district_green_stats has run: kept
\* when it held something, filled from the parks otherwise.
DistrictParkStatsAfter(stats, parks) ==
    IF stats # <<>> THEN stats ELSE ParkStats(parks)

MapLive(ds, green_stats) ==
    [i \in 1..Len(ds) |->
        LiveEstimate(ds[i], IF ds[i].district \in DOMAIN green_stats
                            THEN Some(green_stats[ds[i].district]) ELSE None)]

\* The try of get_heat_island_data: the estimates of the filtered
\* districts, green_stats.get(district_name, 15.0) their ratio, sorted by
\* descending intensity.
LiveHeatIslandData(green_stats, district) ==
    Elements(SortDesc(ByIntensity(MapLive(FilterDistricts(district), green_stats))))

\* math.sqrt(dlat**2 + dlng**2) * 111 <= radius_km, for radius_km = 1.0 and
\* coordinates in 1/10000 degree.
WithinRadius(park, latitude, longitude) ==
    (park.latitude - latitude) * (park.latitude - latitude)
    + (park.longitude - longitude) * (park.longitude - longitude)
        <= (10000 * 10000) \div (111 * 111)

\* The GreenSpaceData get_green_space_data builds from a park in reach;
\* ratio is its random.uniform(20, 80).
ParkGreenSpaceData(park, ratio) ==
    [ green_coverage_ratio |-> ratio,
      park_area |-> IF park.area = None \/ Get(park.area) = 0 THEN 10000
                    ELSE Get(park.area),
      latitude |-> park.latitude,
      longitude |-> park.longitude,
      district |-> park.sgg_nm,
      park_name |-> park.uid ]

NearbyGreenSpaceData(parks, latitude, longitude, ratio) ==
    LET within == {i \in 1..Len(parks) : WithinRadius(parks[i], latitude, longitude)}
    IN  [k \in 1..Cardinality(within) |->
            ParkGreenSpaceData(
                parks[CHOOSE i \in within : Cardinality({j \in within : j <= i}) = k],
                ratio)]

\* random.uniform(20, 80) of a sample built from a park, the same for
\* every park of one call.
ParkRatioDraws == {200, 800}

\* Where green-space data is asked for: Suwon's coordinates, and a point
\* no park is within 1 km of.
LocationInputs ==
    { <<GYEONGGI_DISTRICTS[1].lat, GYEONGGI_DISTRICTS[1].lng>>, <<380000, 1280000>> }

\* A district filter of a park or heat-island request in live mode: none,
\* a district's name, a name no district has.
LiveFilterInputs == { None, <<"su", "won", "si">>, <<"gang", "nam">> }

\* ClimateService() with settings.USE_MOCK_DATA true or false.
InitService ==
    /\ heat_data = NoEstimate
    /\ green_data = None
    /\ weather_data = None
    /\ op = "none"
    /\ args = <<>>
    /\ result = <<>>
    /\ raised = NotRaised
    /\ park_cache = <<>>
    /\ priority_areas = <<>>
    /\ missions = <<>>
    /\ use_mock \in BOOLEAN
    /\ district_park_stats = <<>>
    /\ awaiting = 0
    /\ mission_table = <<>>

\* ClimateService.get_park_data(district).  args.requested tells whether
\* the provider was asked, args.outcome what came of it.
GetParkData ==
    \E district \in LiveFilterInputs, outcome \in WfsOutcomes, draw \in MockParkDraws :
        LET mock_parks == MockParkData(district, draw[1], draw[2], draw[3]) IN
        /\ op' = "get_park_data"
        /\ args' = [district |-> district, requested |-> ~use_mock,
                    outcome |-> IF use_mock THEN WfsOutcome(FALSE, <<>>) ELSE outcome]
        /\ result' = IF use_mock THEN mock_parks ELSE LiveParkData(outcome, mock_parks)
        /\ raised' = NotRaised
        /\ UNCHANGED <<mission_table, awaiting, use_mock, district_park_stats, heat_data, green_data, weather_data, park_cache, priority_areas, missions>>

\* ClimateService.get_heat_island_data(district) in mock mode.
GetHeatIslandDataMock ==
    /\ use_mock
    /\ GetHeatIslandData

\* ClimateService.get_heat_island_data(district) in live mode:
\* get_district_green_stats (which asks get_park_data for all parks unless
\* it holds statistics already, and answers with random statistics when
\* its body raises, body_raises), then the estimates.  Nothing in the try
\* of get_heat_island_data raises once the statistics are there.
GetHeatIslandDataLive ==
    /\ ~use_mock
    /\ \E district \in LiveFilterInputs, outcome \in WfsOutcomes,
          mock_parks \in MockParkChoices(None), body_raises \in BOOLEAN,
          ratio \in RandomStatsDraws :
        LET requested == district_park_stats = <<>>
            parks == LiveParkData(outcome, mock_parks)
            green_stats == IF requested /\ body_raises THEN RandomStats(ratio)
                           ELSE DistrictParkStatsAfter(district_park_stats, parks)
        IN  /\ op' = "get_heat_island_data"
            /\ args' = [district |-> district, requested |-> requested,
                        outcome |-> IF requested THEN outcome ELSE WfsOutcome(FALSE, <<>>)]
            /\ district_park_stats' =
                   IF requested /\ body_raises THEN district_park_stats
                   ELSE DistrictParkStatsAfter(district_park_stats, parks)
            /\ result' = LiveHeatIslandData(green_stats, district)
            /\ raised' = NotRaised
    /\ UNCHANGED <<mission_table, awaiting, use_mock, heat_data, green_data, weather_data, park_cache, priority_areas, missions>>

\* ClimateService.get_green_space_data(latitude, longitude): the mock
\* samples in mock mode; in live mode the samples built from the parks
\* within 1 km, and the mock samples when there is none.
GetGreenSpaceData ==
    \E location \in LocationInputs, outcome \in WfsOutcomes,
       mock_parks \in MockParkChoices(None), ratio \in ParkRatioDraws,
       mock_green \in MockGreenChoices :
        LET nearby == NearbyGreenSpaceData(LiveParkData(outcome, mock_parks),
                                           location[1], location[2], ratio)
        IN  /\ op' = "get_green_space_data"
            /\ args' = [latitude |-> location[1], longitude |-> location[2],
                        requested |-> ~use_mock,
                        outcome |-> IF use_mock THEN WfsOutcome(FALSE, <<>>) ELSE outcome]
            /\ result' = IF use_mock \/ nearby = <<>> THEN mock_green ELSE nearby
            /\ raised' = NotRaised
            /\ UNCHANGED <<mission_table, awaiting, use_mock, district_park_stats, heat_data, green_data, weather_data, park_cache, priority_areas, missions>>

\* One pass of the loop of _generate_mock_heat_island_data, which only a
\* service in mock mode runs (the except of get_heat_island_data is not
\* reached).
EstimateMockOfService ==
    /\ use_mock
    /\ EstimateMock

NextService ==
    \/ GetParkData
    \/ GetHeatIslandDataMock
    \/ GetHeatIslandDataLive
    \/ GetGreenSpaceData
    \/ EstimateMockOfService

SpecService == InitService /\ [][NextService]_vars

\* --------------------------------------- suggest_mission_for_location

\* district="지정 위치"
DesignatedLocation == <<"ji", "jeong", " ", "wi", "chi">>

\* The HeatIslandData suggest_mission_for_location builds from a weather
\* reading: estimated_intensity = 1.5 + (weather.temperature - 28) * 0.1,
\* heat_island_intensity = max(0.5, estimated_intensity), in hundredths;
\* the temperature is the reading's.
LocationEstimate(latitude, longitude, weather) ==
    [ latitude |-> latitude,
      longitude |-> longitude,
      temperature |-> weather.temperature,
      heat_island_intensity |-> Max(50, 150 + (weather.temperature - BaseTemp)),
      district |-> DesignatedLocation,
      green_coverage_ratio |-> None ]

\* Readings get_weather_data may supply: the 30.0 C of
\* _generate_mock_weather_data, 45.0 C and 10.0 C.
WeatherReadings ==
    { MockWeatherData, WeatherData(450, 65, 25), WeatherData(100, 65, 25) }

\* Where a suggestion is asked for.
SuggestLocationInputs ==
    LocationInputs \cup { <<GYEONGGI_DISTRICTS[2].lat, GYEONGGI_DISTRICTS[2].lng>> }

\* random.choice of the calls of one suggestion: the same index into the
\* titles and into the descriptions for each, the last when there are fewer.
PickInputs == 1..4

\* generate_mission(heat_data, mission_type) for one solution, the
\* provider answering analyze_area with `green` and `weather`.
SuggestedMission(h, weather, green, mission_type, pick) ==
    LET analysis == Analysis(h, Some(green), Some(weather))
        template == Template(mission_type)
    IN  ComposeMission(h, analysis, mission_type,
                       template.titles[Min(pick, Len(template.titles))],
                       template.descriptions[Min(pick, Len(template.descriptions))])

InitSuggest ==
    /\ heat_data = NoEstimate
    /\ green_data = None
    /\ weather_data = None
    /\ op = "none"
    /\ args = <<>>
    /\ result = <<>>
    /\ raised = NotRaised
    /\ park_cache = <<>>
    /\ priority_areas = <<>>
    /\ missions = <<>>
    /\ use_mock = TRUE
    /\ district_park_stats = <<>>
    /\ awaiting = 0
    /\ mission_table = <<>>

\* MissionAgent.suggest_mission_for_location(latitude, longitude):
\* heat_data is the estimate it builds and passes to generate_mission, the
\* result one mission for each MissionType.
SuggestMissionForLocation ==
    \E location \in SuggestLocationInputs, weather \in WeatherReadings,
       green \in MockGreenChoices, pick \in PickInputs :
        LET h == LocationEstimate(location[1], location[2], weather)
        IN  /\ op' = "suggest_mission_for_location"
            /\ args' = [latitude |-> location[1], longitude |-> location[2]]
            /\ weather_data' = Some(weather)
            /\ heat_data' = h
            /\ result' = [i \in 1..Len(MissionType) |->
                              SuggestedMission(h, weather, green, MissionType[i], pick)]
            /\ raised' = NotRaised
            /\ UNCHANGED <<mission_table, awaiting, use_mock, district_park_stats, green_data, park_cache, priority_areas, missions>>

NextSuggest == SuggestMissionForLocation

SpecSuggest == InitSuggest /\ [][NextSuggest]_vars

\* --------------------------------- get_district_green_stats, calls overlapping

\* ClimateService is shared by the requests of a router, and a call of
\* get_district_green_stats gives way to the others at
\* `await self.get_park_data(max_features=500)`: it is two steps, the test of
\* the store with the request, and the loops once the parks are there.

\* The calls that may be suspended at once.
MaxAwaiting == 2

\* The loop `for district in district_areas`: an entry written for every
\* district of the parks, the entries of the other districts left as they
\* are.
StoredParkStats(stats, parks) ==
    LET computed == ParkStats(parks)
    IN  [sgg_nm \in DOMAIN stats \cup DOMAIN computed |->
            IF sgg_nm \in DOMAIN computed THEN computed[sgg_nm] ELSE stats[sgg_nm]]

InitStats ==
    /\ heat_data = NoEstimate
    /\ green_data = None
    /\ weather_data = None
    /\ op = "none"
    /\ args = <<>>
    /\ result = <<>>
    /\ raised = NotRaised
    /\ park_cache = <<>>
    /\ priority_areas = <<>>
    /\ missions = <<>>
    /\ use_mock = FALSE
    /\ district_park_stats = <<>>
    /\ awaiting = 0
    /\ mission_table = <<>>

\* get_district_green_stats up to its await: the store returned when it
\* holds something, the provider asked otherwise.
BeginGreenStats ==
    /\ IF district_park_stats # <<>>
       THEN /\ op' = "get_district_green_stats"
            /\ args' = [requested |-> FALSE]
            /\ result' = district_park_stats
            /\ awaiting' = awaiting
       ELSE /\ awaiting < MaxAwaiting
            /\ op' = "get_district_green_stats_await"
            /\ args' = [requested |-> TRUE]
            /\ result' = <<>>                  \* nothing returned yet
            /\ awaiting' = awaiting + 1
    /\ raised' = NotRaised
    /\ UNCHANGED <<mission_table, use_mock, district_park_stats, heat_data, green_data, weather_data,
                   park_cache, priority_areas, missions>>

\* get_district_green_stats from its await on, for one of the suspended
\* calls: the parks get_park_data answers with (the mock parks after a
\* failure of the provider), the entries stored and the store returned; the
\* random statistics, nothing stored, when the body raises.  args.outcome
\* tells what came of the provider request.
EndGreenStats ==
    /\ awaiting > 0
    /\ \E outcome \in WfsOutcomes, mock_parks \in MockParkChoices(None),
          body_raises \in BOOLEAN, ratio \in RandomStatsDraws :
        LET parks == LiveParkData(outcome, mock_parks)
        IN  /\ op' = "get_district_green_stats"
            /\ args' = [requested |-> TRUE, outcome |-> outcome]
            /\ district_park_stats' =
                   IF body_raises THEN district_park_stats
                   ELSE StoredParkStats(district_park_stats, parks)
            /\ result' = IF body_raises THEN RandomStats(ratio)
                         ELSE StoredParkStats(district_park_stats, parks)
    /\ awaiting' = awaiting - 1
    /\ raised' = NotRaised
    /\ UNCHANGED <<mission_table, use_mock, heat_data, green_data, weather_data, park_cache,
                   priority_areas, missions>>

NextStats == BeginGreenStats \/ EndGreenStats

SpecStats == InitStats /\ [][NextStats]_vars

\* ------------------------------------------------- the mission router

\* Ids the table hands out, readings of the clock, cooling spots there are.
MaxMissionId == 2
MaxTime == 2
MaxSpots == 1

\* MissionStatus, without FAILED, which the router treats as IN_PROGRESS.
PENDING == "pending"
IN_PROGRESS == "in_progress"
COMPLETED == "completed"

\* HTTPException(status_code=404)
NotFound == "HTTPException 404"

\* The bodies of PATCH requests: each field of MissionUpdate left unset
\* (None), or set (Some) to null or to a value.
UpdateInputs ==
    { [status |-> s, user_id |-> u] :
        s \in {None, Some(None)} \cup {Some(Some(x)) : x \in {PENDING, IN_PROGRESS, COMPLETED}},
        u \in {None, Some(None), Some(Some(1))} }

\* update_data with no completion time added.
UpdateData_NoCompletionTime(update, now) ==
    [status |-> update.status, user_id |-> update.user_id, completed_at |-> None]

\* update_data = update.model_dump(exclude_unset=True), with completed_at =
\* datetime.utcnow() added when the status it sets is COMPLETED.
UpdateData(update, now) ==
    [ status |-> update.status,
      user_id |-> update.user_id,
      completed_at |-> IF update.status = Some(Some(COMPLETED))
                       THEN Some(Some(now)) ELSE None ]

InitMissions ==
    /\ heat_data = NoEstimate
    /\ green_data = None
    /\ weather_data = None
    /\ op = "none"
    /\ args = <<>>
    /\ result = <<>>
    /\ raised = NotRaised
    /\ park_cache = <<>>
    /\ priority_areas = <<>>
    /\ missions = <<>>
    /\ use_mock = TRUE
    /\ district_park_stats = <<>>
    /\ awaiting = 0
    /\ mission_table = <<>>

\* POST /missions/: 404 without the cooling spot; else a row with the
\* defaults of the columns (status PENDING, user_id and completed_at null)
\* under the next id, the largest there is plus one.
CreateMission ==
    \E cooling_spot_id \in 1..(MaxSpots + 1) :
        LET id == 1 + Max(0, CHOOSE k \in DOMAIN mission_table \cup {0} :
                                 \A j \in DOMAIN mission_table : j <= k)
            row == [ id |-> id, status |-> Some(PENDING), user_id |-> None,
                     cooling_spot_id |-> cooling_spot_id, completed_at |-> None ]
        IN  /\ id <= MaxMissionId
            /\ op' = "create_mission"
            /\ args' = [cooling_spot_id |-> cooling_spot_id]
            /\ IF cooling_spot_id \notin 1..MaxSpots
               THEN /\ raised' = NotFound
                    /\ result' = <<>>
                    /\ UNCHANGED mission_table
               ELSE /\ raised' = NotRaised
                    /\ result' = row
                    /\ mission_table' =
                           [k \in DOMAIN mission_table \cup {id} |->
                               IF k = id THEN row ELSE mission_table[k]]
            /\ UNCHANGED <<awaiting, use_mock, district_park_stats, heat_data, green_data,
                           weather_data, park_cache, priority_areas, missions>>

\* PATCH /missions/{mission_id}: 404 without the row; else every field of
\* update_data set on it.
UpdateMission ==
    \E mission_id \in 1..(MaxMissionId + 1), update \in UpdateInputs, now \in 1..MaxTime :
        /\ op' = "update_mission"
        /\ args' = [mission_id |-> mission_id, update |-> update]
        /\ IF mission_id \notin DOMAIN mission_table
           THEN /\ raised' = NotFound
                /\ result' = <<>>
                /\ UNCHANGED mission_table
           ELSE LET update_data == UpdateData(update, now)
                    mission == mission_table[mission_id]
                    updated ==
                        [ id |-> mission.id,
                          cooling_spot_id |-> mission.cooling_spot_id,
                          status |-> IF update_data.status = None THEN mission.status
                                     ELSE Get(update_data.status),
                          user_id |-> IF update_data.user_id = None THEN mission.user_id
                                      ELSE Get(update_data.user_id),
                          completed_at |-> IF update_data.completed_at = None
                                           THEN mission.completed_at
                                           ELSE Get(update_data.completed_at) ]
                IN  /\ raised' = NotRaised
                    /\ result' = updated
                    /\ mission_table' = [mission_table EXCEPT ![mission_id] = updated]
        /\ UNCHANGED <<awaiting, use_mock, district_park_stats, heat_data, green_data,
                       weather_data, park_cache, priority_areas, missions>>

\* DELETE /missions/{mission_id}: 404 without the row; else the row gone.
DeleteMission ==
    \E mission_id \in 1..(MaxMissionId + 1) :
        /\ op' = "delete_mission"
        /\ args' = [mission_id |-> mission_id]
        /\ result' = <<>>
        /\ IF mission_id \notin DOMAIN mission_table
           THEN /\ raised' = NotFound
                /\ UNCHANGED mission_table
           ELSE /\ raised' = NotRaised
                /\ mission_table' =
                       [k \in DOMAIN mission_table \ {mission_id} |-> mission_table[k]]
        /\ UNCHANGED <<awaiting, use_mock, district_park_stats, heat_data, green_data,
                       weather_data, park_cache, priority_areas, missions>>

NextMissions == CreateMission \/ UpdateMission \/ DeleteMission

SpecMissions == InitMissions /\ [][NextMissions]_vars

\* ------------------------------------------------------------- claims

\* C1: for every population density >= 0 and every green-coverage ratio in
\* [0, 100] % (or none, which is then estimated or defaulted), the intensity
\* the estimator produces lies in [0.5, 3.0].
C1_IntensityInRange ==
    op \in {"estimate_mock", "estimate_live"} =>
        /\ result.heat_island_intensity >= 50
        /\ result.heat_island_intensity <= 300

\* An estimate whose unclamped intensity is below 0.5: the clamp acted.
C1_Witness ==
    /\ op = "estimate_mock"
    /\ RawIntensity(args.population_density,
                    EstimatedGreenRatio(args.population_density)) < 10000
    /\ result.heat_island_intensity = 50

\* C2: for every valid estimate, any list of green-space samples (or none)
\* and any weather reading (or none), the priority score lies in [0, 100].
C2_ScoreInRange ==
    op = "score" => result >= 0 /\ result <= 100 * ScoreScale

\* A score of a valid estimate whose samples average above 40 %, where
\* 20 - avg * 0.5 is negative and the green term is floored at 0.
C2_Witness ==
    /\ op = "score"
    /\ heat_data.heat_island_intensity \in 50..300
    /\ Truthy(green_data)
    /\ SumGreenRatio(Get(green_data)) > 400 * Len(Get(green_data))
    /\ weather_data # None
    /\ result = IntensityScore(heat_data) + TemperatureScore(heat_data)
                + WeatherScore(weather_data)

\* C3 as stated: _recommend_solutions returns a ranking with all 5 known
\* solution types, each exactly once.
C3_ReturnsAllFive ==
    op = "recommend" =>
        /\ Len(result) = 5
        /\ {result[i] : i \in 1..Len(result)} = MissionTypes

\* C3 amended: the ranking _recommend_solutions sorts holds all 5 known
\* solution types, each exactly once, and what it returns is the first 3
\* entries of that ranking: 3 distinct solution types.
C3_RanksAllFiveReturnsThree ==
    op = "recommend" =>
        LET ranking == SortedSolutions(heat_data, args, green_data) IN
        /\ Len(ranking) = 5
        /\ {ranking[i][1] : i \in 1..Len(ranking)} = MissionTypes
        /\ Len(result) = 3
        /\ \A i \in 1..3 : result[i] = ranking[i][1]
        /\ Cardinality({result[i] : i \in 1..3}) = 3

\* A recommendation in which a solution scored 0 and is still ranked.
C3_Witness ==
    /\ op = "recommend"
    /\ Len(result) = 3
    /\ \E i \in 1..Len(MISSION_TEMPLATES) :
           SolutionScore(MISSION_TEMPLATES[i], heat_data, args, green_data) = 0

\* The order of the solution table as the claim lists it.
C4_DeclarationOrder ==
    <<TREE_PLANTING, GREEN_ROOF, COOL_PAVEMENT, WATER_FEATURE, SHADE_STRUCTURE>>

C4_Position(mission_type) ==
    CHOOSE i \in 1..Len(C4_DeclarationOrder) : C4_DeclarationOrder[i] = mission_type

\* a ranks before b: a higher score, or the same score and declared earlier.
C4_Before(a, b) ==
    LET sa == SolutionScore(Template(a), heat_data, args, green_data)
        sb == SolutionScore(Template(b), heat_data, args, green_data)
    IN  sa > sb \/ (sa = sb /\ C4_Position(a) < C4_Position(b))

\* C4: the recommended solutions are the top 3 by suitability score in
\* descending order, equal scores in declaration order.
C4_TopThreeStable ==
    op = "recommend" =>
        /\ Len(result) = 3
        /\ \A i, j \in 1..Len(result) : i < j => C4_Before(result[i], result[j])
        /\ \A i \in 1..Len(result) :
               \A m \in MissionTypes \ {result[k] : k \in 1..Len(result)} :
                   C4_Before(result[i], m)

\* A recommendation in which the third and a left-out solution tie.
C4_Witness ==
    /\ op = "recommend"
    /\ Len(result) = 3
    /\ \E m \in MissionTypes \ {result[k] : k \in 1..3} :
           SolutionScore(Template(m), heat_data, args, green_data)
               = SolutionScore(Template(result[3]), heat_data, args, green_data)
    /\ SolutionScore(Template(result[1]), heat_data, args, green_data)
           > SolutionScore(Template(result[3]), heat_data, args, green_data)

\* The cooling-effect range declared for each solution, in hundredths of a
\* degree: 0.3-0.8, 0.5-1.5, 0.2-0.5, 0.2-0.4, 0.1-0.3.
C5_DeclaredRange(mission_type) ==
    CASE mission_type = TREE_PLANTING -> 30..80
      [] mission_type = GREEN_ROOF -> 50..150
      [] mission_type = COOL_PAVEMENT -> 20..50
      [] mission_type = WATER_FEATURE -> 20..40
      [] mission_type = SHADE_STRUCTURE -> 10..30

\* C5: every mission generate_mission produces, for any estimate and any of
\* the 5 solution types, given or chosen by the recommender, has an
\* estimated_cooling_effect within the range declared for its solution.
C5_CoolingInRange ==
    (op = "generate_mission" /\ raised = NotRaised) =>
        result.estimated_cooling_effect \in C5_DeclaredRange(result.mission_type)

\* A mission whose solution the recommender chose and whose cooling effect
\* lies strictly inside the range: the score moved it off the minimum.
C5_Witness ==
    /\ op = "generate_mission"
    /\ raised = NotRaised
    /\ args = None
    /\ result.priority_score > 0
    /\ \E lo, hi \in C5_DeclaredRange(result.mission_type) :
           lo < result.estimated_cooling_effect /\ result.estimated_cooling_effect < hi

\* avg(g1) <= avg(g2) for two non-empty sample lists.
C7_AvgLeq(g1, g2) ==
    SumGreenRatio(Get(g1)) * Len(Get(g2)) <= SumGreenRatio(Get(g2)) * Len(Get(g1))

\* C7: all else fixed, the priority score does not decrease as the intensity
\* increases, and does not increase as the average green-coverage ratio of
\* the samples increases.
C7_ScoreMonotone ==
    op = "score" =>
        /\ \A i \in IntensityInputs :
               i >= heat_data.heat_island_intensity =>
                   CalculatePriorityScore([heat_data EXCEPT !.heat_island_intensity = i],
                                          green_data, weather_data) >= result
        /\ Truthy(green_data) =>
               \A g \in GreenInputs :
                   (Truthy(g) /\ C7_AvgLeq(green_data, g)) =>
                       CalculatePriorityScore(heat_data, g, weather_data) <= result

\* A score that a higher intensity raises and a greener sample list lowers.
C7_Witness ==
    /\ op = "score"
    /\ Truthy(green_data)
    /\ \E i \in IntensityInputs :
           /\ i > heat_data.heat_island_intensity
           /\ CalculatePriorityScore([heat_data EXCEPT !.heat_island_intensity = i],
                                     green_data, weather_data) > result
    /\ \E g \in GreenInputs :
           /\ Truthy(g)
           /\ ~C7_AvgLeq(g, green_data)
           /\ CalculatePriorityScore(heat_data, g, weather_data) < result

\* C8 as stated: two calls of generate_mission with the same heat_data and
\* the same solution type yield the same priority score, cooling effect,
\* points reward, title and description.
C8_SameArgumentsSameMission ==
    \A i, j \in 1..Len(result) :
        /\ result[i].priority_score = result[j].priority_score
        /\ result[i].estimated_cooling_effect = result[j].estimated_cooling_effect
        /\ result[i].points_reward = result[j].points_reward
        /\ result[i].title = result[j].title
        /\ result[i].description = result[j].description

\* C8 amended: two calls of generate_mission with the same heat_data and the
\* same solution type, to which the provider answers with the same
\* green-space samples and weather, yield the same solution, priority
\* score, cooling effect and points reward; title and description are each
\* one of that solution's templates, filled with the district.
C8_SameSamplesSameMission ==
    /\ \A i, j \in 1..Len(result) :
           green_data[i] = green_data[j] =>
               /\ result[i].mission_type = result[j].mission_type
               /\ result[i].priority_score = result[j].priority_score
               /\ result[i].estimated_cooling_effect = result[j].estimated_cooling_effect
               /\ result[i].points_reward = result[j].points_reward
    /\ \A i \in 1..Len(result) :
           LET template == Template(result[i].mission_type) IN
           /\ \E k \in 1..Len(template.titles) :
                  result[i].title = <<template.titles[k], heat_data.district>>
           /\ \E k \in 1..Len(template.descriptions) :
                  result[i].description = <<template.descriptions[k], heat_data.district>>

\* Two calls the provider answered alike, with different titles, and the
\* solution left to the recommender.
C8_Witness ==
    /\ Len(result) = 2
    /\ args = None
    /\ green_data[1] = green_data[2]
    /\ result[1].title # result[2].title
    /\ result[1].priority_score = result[2].priority_score

\* The districts and intensities of a list of estimates, in its order.
C9_Outline(heat_list) ==
    [i \in 1..Len(heat_list) |->
        <<heat_list[i].district, heat_list[i].heat_island_intensity>>]

\* C9 as stated: on one ClimateService in mock mode, every call of
\* get_heat_island_data, whatever calls came before it, returns the
\* districts, intensities and order an uncached computation for its filter
\* returns.
C9_CacheAdvisory ==
    op = "get_heat_island_data" =>
        C9_Outline(result) = C9_Outline(ComputeMockHeatIslandData(args))

\* C10 as stated: generate_missions_batch with top_n = 0 or a negative
\* top_n fails with an InvalidArgument error and returns no missions.
C10_NonPositiveTopNRejected ==
    (op = "generate_missions_batch" /\ args.top_n <= 0) =>
        /\ raised = "InvalidArgument"
        /\ result = <<>>

\* C11: for 1 <= top_n <= number of districts, generate_missions_batch(top_n)
\* returns exactly top_n missions, each of a different district, in
\* descending order of priority score, and two missions of equal score stand
\* in the order of their areas before the sort (the priority areas' order).
C11_AreaPosition(district, top_n) ==
    LET areas == CoolingPriorityAreas(ComputeMockHeatIslandData(None), top_n)
    IN  CHOOSE i \in 1..Len(areas) : areas[i].district = district

C11_BatchTopNSorted ==
    (/\ op = "generate_missions_batch"
     /\ args.top_n >= 1
     /\ args.top_n <= Len(GYEONGGI_DISTRICTS)) =>
        /\ Len(result) = args.top_n
        /\ \A i, j \in 1..Len(result) :
              i < j =>
                /\ result[i].district # result[j].district
                /\ result[i].priority_score >= result[j].priority_score
                /\ result[i].priority_score = result[j].priority_score =>
                      C11_AreaPosition(result[i].district, args.top_n)
                        < C11_AreaPosition(result[j].district, args.top_n)

\* A batch of two whose missions score the same: the tie is kept in area
\* order.
C11_Witness ==
    /\ op = "generate_missions_batch"
    /\ args.top_n = 2
    /\ Len(result) = 2
    /\ result[1].priority_score = result[2].priority_score
    /\ result[1].district # result[2].district

C13_UnknownSolutionTypeFails ==
    (/\ op = "generate_mission"
     /\ args # None
     /\ Get(args) \notin MissionTypes) =>
        /\ raised = KeyError
        /\ result = <<>>

\* generate_mission was called with a solution outside the five and failed.
C13_Witness ==
    /\ op = "generate_mission"
    /\ args = Some(RAIN_GARDEN)
    /\ raised = KeyError

\* C14: score, classify and recommend never fail, whether the green
\* samples are absent, an empty list or non-empty and whether the weather
\* is absent or present: each returns a value and raises nothing (the
\* average never divides by zero), and absent and empty samples both get
\* the defaults: 15 points of green score, an area that is industrial or
\* commercial by its name and mixed otherwise, and the recommendation made
\* without samples.
C14_NoGreenDefaults ==
    (green_data = None \/ green_data = Some(<<>>)) =>
        /\ op = "score" =>
              result = Min(100 * ScoreScale,
                           IntensityScore(heat_data) + TemperatureScore(heat_data)
                           + 15 * ScoreScale + WeatherScore(weather_data))
        /\ op = "classify" =>
              /\ result \in {INDUSTRIAL, COMMERCIAL, MIXED}
              /\ result = EstimateAreaCharacteristics(heat_data, None)
        /\ op = "recommend" =>
              result = RecommendSolutions(heat_data, args, None)

C14_EngineNeverFails ==
    op \in {"score", "classify", "recommend"} =>
        /\ raised = NotRaised
        /\ op = "score" => result \in 0..(100 * ScoreScale)
        /\ op = "classify" => result \in AreaCharacteristics
        /\ op = "recommend" => Len(result) = RecommendCount
        /\ C14_NoGreenDefaults

\* The scorer was given an empty list of samples and a weather reading,
\* and returned a score.
C14_Witness ==
    /\ op = "score"
    /\ green_data = Some(<<>>)
    /\ weather_data # None
    /\ raised = NotRaised
    /\ result >= 15 * ScoreScale

\* C15: in live mode, when the request to the provider fails,
\* get_park_data, get_heat_island_data and get_green_space_data raise
\* nothing and return synthetic data: the mock parks; estimates for every
\* filtered district, computed from the statistics of the mock parks (5 %
\* everywhere) or from the random statistics; the mock samples, or samples
\* built from mock parks.
C15_IsMockPark(uid) ==
    \E i \in 1..Len(GYEONGGI_DISTRICTS), k \in 1..Len(Digits) :
        uid = GYEONGGI_DISTRICTS[i].district \o <<"_", Digits[k]>>

C15_FailureFallsBack ==
    (/\ ~use_mock
     /\ op \in {"get_park_data", "get_heat_island_data", "get_green_space_data"}
     /\ args.requested
     /\ args.outcome.raises) =>
        /\ raised = NotRaised
        /\ op = "get_park_data" => result \in MockParkChoices(args.district)
        /\ op = "get_heat_island_data" =>
              /\ Len(result) = Len(FilterDistricts(args.district))
              /\ \E ratio \in {50} \cup RandomStatsDraws :
                    \A i \in 1..Len(result) :
                        result[i].green_coverage_ratio = Some(ratio)
        /\ op = "get_green_space_data" =>
              \/ result \in MockGreenChoices
              \/ /\ result # <<>>
                 /\ \A i \in 1..Len(result) : C15_IsMockPark(result[i].park_name)

\* The provider failed a heat-island request for all districts, and the
\* caller got estimates.
C15_Witness ==
    /\ ~use_mock
    /\ op = "get_heat_island_data"
    /\ args.requested
    /\ args.outcome.raises
    /\ args.district = None
    /\ raised = NotRaised
    /\ Len(result) = Len(GYEONGGI_DISTRICTS)

\* C16: the green-coverage ratio of every intensity computation lies in
\* [5.0, 40.0] %, whether it comes from the clamped park statistics, the
\* random fallback statistics, the default of 15 %, or the estimate from a
\* population density >= 0.
C16_GreenRatioInRange ==
    /\ op = "get_heat_island_data" =>
          \A i \in 1..Len(result) :
              /\ Get(result[i].green_coverage_ratio) >= 50
              /\ Get(result[i].green_coverage_ratio) <= 400
    /\ (op = "estimate_mock" /\ args.population_density >= 0) =>
          /\ Get(result.green_coverage_ratio) >= 50
          /\ Get(result.green_coverage_ratio) <= 400

\* A live answer in which one district has the ratio of its parks, capped
\* at 40 %, one the floor of 5 %, and the others the default.
C16_Witness ==
    /\ ~use_mock
    /\ op = "get_heat_island_data"
    /\ \E i, j, k \in 1..Len(result) :
          /\ result[i].green_coverage_ratio = Some(400)
          /\ result[j].green_coverage_ratio = Some(50)
          /\ result[k].green_coverage_ratio = Some(DefaultGreenRatio)

C18_ScenarioScores60 ==
    (/\ op = "score"
     /\ heat_data.heat_island_intensity = 274
     /\ heat_data.temperature = 307
     /\ green_data = None
     /\ weather_data = None) =>
        result = 60 * ScoreScale

\* C18, amended: for that estimate, without green samples and without a
\* weather reading, the priority score is 65.0: 40 for the intensity
\* (2.74 * 16 capped), 10 for the temperature (30.7 >= 30), 15 of green
\* fallback, 0 of weather.
C18_ScenarioScores65 ==
    (/\ op = "score"
     /\ heat_data.heat_island_intensity = 274
     /\ heat_data.temperature = 307
     /\ green_data = None
     /\ weather_data = None) =>
        /\ result = 65 * ScoreScale
        /\ IntensityScore(heat_data) = 40 * ScoreScale
        /\ TemperatureScore(heat_data) = 10 * ScoreScale
        /\ GreenScore(green_data) = 15 * ScoreScale
        /\ WeatherScore(weather_data) = 0

\* The scenario was scored.
C18_Witness ==
    /\ op = "score"
    /\ heat_data.heat_island_intensity = 274
    /\ heat_data.temperature = 307
    /\ green_data = None
    /\ weather_data = None
    /\ result = 65 * ScoreScale

\* C19 as stated: for a district with population density 9800 and no known
\* green-coverage ratio, the estimator uses an estimated green ratio of 5.0
\* and produces intensity 2.74 and temperature 30.7.
C19_ScenarioFloorRatio ==
    (op = "estimate_mock" /\ args.population_density = 9800) =>
        /\ result.green_coverage_ratio = Some(50)
        /\ result.heat_island_intensity = 274
        /\ result.temperature = 307

\* C19, amended: for that district the estimator uses an estimated green
\* ratio of 20.4 (max(5, 40 - 9800/500)) and produces intensity 1.47 and
\* temperature 29.5.
C19_ScenarioEstimatedRatio ==
    (op = "estimate_mock" /\ args.population_density = 9800) =>
        /\ args.green_ratio = None
        /\ result.green_coverage_ratio = Some(204)
        /\ result.heat_island_intensity = 147
        /\ result.temperature = 295

\* The district of density 9800 was estimated without a known ratio.
C19_Witness ==
    /\ op = "estimate_mock"
    /\ args.population_density = 9800
    /\ args.green_ratio = None
    /\ result.heat_island_intensity = 147

\* C20: the priority score is min(100, I + T + G + W), with
\*   I = min(intensity * 16, 40);
\*   T = 20 if temperature >= 35, 15 if >= 32, 10 if >= 30, 5 if >= 28,
\*       else 0;
\*   G = max(0, 20 - avg_green_ratio * 0.5) when green samples are given,
\*       15 otherwise;
\*   W = 0 without a weather reading, otherwise (10 if humidity >= 70, 5 if
\*       >= 60, else 0) + (10 if wind < 1.0, 5 if < 2.0, else 0).
\* (Points in 1/ScoreScale, intensity in hundredths, temperature, ratios and
\* wind in tenths.)
C20_ScoreFormula ==
    op = "score" =>
        LET I == IF heat_data.heat_island_intensity * 16 >= 4000
                 THEN 40 * ScoreScale
                 ELSE (heat_data.heat_island_intensity * 16 * ScoreScale) \div 100
            T == CASE heat_data.temperature >= 350 -> 20 * ScoreScale
                   [] heat_data.temperature \in 320..349 -> 15 * ScoreScale
                   [] heat_data.temperature \in 300..319 -> 10 * ScoreScale
                   [] heat_data.temperature \in 280..299 -> 5 * ScoreScale
                   [] OTHER -> 0
            samples == IF green_data = None THEN <<>> ELSE Get(green_data)
            half_avg == (SumGreenRatio(samples) * ScoreScale) \div (20 * Len(samples))
            G == IF Len(samples) = 0 THEN 15 * ScoreScale
                 ELSE IF half_avg >= 20 * ScoreScale THEN 0
                 ELSE 20 * ScoreScale - half_avg
            W == IF weather_data = None THEN 0
                 ELSE (CASE Get(weather_data).humidity >= 70 -> 10 * ScoreScale
                         [] Get(weather_data).humidity \in 60..69 -> 5 * ScoreScale
                         [] OTHER -> 0)
                      + (CASE Get(weather_data).wind_speed < 10 -> 10 * ScoreScale
                           [] Get(weather_data).wind_speed \in 10..19 -> 5 * ScoreScale
                           [] OTHER -> 0)
        IN  result = IF I + T + G + W >= 100 * ScoreScale THEN 100 * ScoreScale
                     ELSE I + T + G + W

\* A score below 100 made of all four terms: samples, humid air and no
\* wind.
C20_Witness ==
    /\ op = "score"
    /\ green_data # None
    /\ Get(green_data) # <<>>
    /\ weather_data # None
    /\ Get(weather_data).humidity >= 70
    /\ Get(weather_data).wind_speed < 10
    /\ heat_data.heat_island_intensity * 16 < 4000
    /\ result > 20 * ScoreScale
    /\ result < 100 * ScoreScale


\* The clamp of the claim.
C21_Clamp(x, lo, hi) == IF x < lo THEN lo ELSE IF x > hi THEN hi ELSE x

\* The claim's expression in 1/600000: 0.5 is 300000, (30 - g) / 30 * 1.5 is
\* 3000 * (300 - g) for g in tenths of a percent, min(density / 20000, 1.0)
\* is 30 * min(density, 20000).
C21_Intensity(pop_density, green_ratio) ==
    RoundDouble(C21_Clamp(300000 + 3000 * (300 - green_ratio)
                              + 30 * (IF pop_density < 20000 THEN pop_density ELSE 20000),
                          300000, 1800000),
                6000, <<pop_density, green_ratio>> \in IntensityRoundsUp)

\* C21: every estimate of the mock path, the live path and the dashboard has
\* intensity = clamp(0.5 + ((30 - green_ratio) / 30) * 1.5
\* + min(density / 20000, 1.0) * 1.0, 0.5, 3.0) rounded to 2 decimals, for the
\* green ratio the path used, and temperature = 28.0 + intensity rounded to
\* 1 decimal.
C21_OneFormula ==
    op \in {"estimate_mock", "estimate_live", "estimate_dashboard"} =>
        /\ result.heat_island_intensity =
               C21_Intensity(args.population_density, Get(result.green_coverage_ratio))
        /\ result.temperature =
               RoundDouble(2800 + result.heat_island_intensity, 10,
                           result.heat_island_intensity \in TemperatureRoundsUp)

\* A dashboard estimate for which neither clamp bound acts and the density
\* term is below its cap.
C21_Witness ==
    /\ op = "estimate_dashboard"
    /\ args.population_density > 0
    /\ args.population_density < 20000
    /\ result.heat_island_intensity > 50
    /\ result.heat_island_intensity < 300


\* max(5, 40 - density / 500) percent, in tenths of a percent.
C22_Estimated(pop_density) ==
    IF 400 - pop_density \div 50 < 50 THEN 50 ELSE 400 - pop_density \div 50

\* C22 as stated: whenever no green-coverage ratio is known for a district,
\* the green ratio of the intensity computation is max(5, 40 - density / 500)
\* percent, in the mock path and in the live path alike.
C22_EstimatedInBothPaths ==
    (op \in {"estimate_mock", "estimate_live"} /\ args.green_ratio = None) =>
        /\ result.green_coverage_ratio = Some(C22_Estimated(args.population_density))
        /\ result.heat_island_intensity =
               C21_Intensity(args.population_density,
                             C22_Estimated(args.population_density))

\* C22, amended: whenever no green-coverage ratio is known for a district,
\* the mock path and the dashboard use max(5, 40 - density / 500) percent as
\* the green ratio of the intensity computation, and the live path uses the
\* fixed default of 15 percent.
C22_EstimatedOrDefault ==
    (op \in {"estimate_mock", "estimate_live", "estimate_dashboard"}
        /\ args.green_ratio = None) =>
        LET used == IF op = "estimate_live" THEN 150
                    ELSE C22_Estimated(args.population_density)
        IN  /\ result.green_coverage_ratio = Some(used)
            /\ result.heat_island_intensity =
                   C21_Intensity(args.population_density, used)

\* A live estimate without a known ratio whose intensity differs from the one
\* the estimated ratio would give.
C22_Witness ==
    /\ op = "estimate_live"
    /\ args.green_ratio = None
    /\ result.green_coverage_ratio = Some(150)
    /\ result.heat_island_intensity #
           C21_Intensity(args.population_density, C22_Estimated(args.population_density))


\* The indicators of the classifier's rules, read off the inputs.
C23_Industrial ==
    \E kw \in IndustrialKeywords : Contains(kw, heat_data.district)

C23_Commercial ==
    \E kw \in CommercialKeywords : Contains(kw, heat_data.district)

C23_Samples == IF green_data = None THEN <<>> ELSE Get(green_data)

C23_LargePark == \E i \in 1..Len(C23_Samples) : C23_Samples[i].park_area > 5000

C23_GreenAbove30 ==
    /\ Len(C23_Samples) > 0
    /\ SumSeq([i \in 1..Len(C23_Samples) |-> C23_Samples[i].green_coverage_ratio])
           > 300 * Len(C23_Samples)

\* C23: the classifier applies its rules in order and the first match wins:
\* an industrial keyword in the district name gives Industrial whatever the
\* other indicators; otherwise a commercial keyword gives Commercial;
\* otherwise a sample with park area > 5000 gives ParkAdjacent (also when the
\* average green ratio exceeds 30); otherwise an average green ratio > 30
\* gives Residential; otherwise Mixed.
C23_FirstMatchWins ==
    (op = "classify" /\ raised = NotRaised) =>
        /\ result \in AreaCharacteristics
        /\ C23_Industrial => result = INDUSTRIAL
        /\ (~C23_Industrial /\ C23_Commercial) => result = COMMERCIAL
        /\ (~C23_Industrial /\ ~C23_Commercial /\ C23_LargePark)
              => result = PARK_ADJACENT
        /\ (~C23_Industrial /\ ~C23_Commercial /\ ~C23_LargePark /\ C23_GreenAbove30)
              => result = RESIDENTIAL
        /\ (~C23_Industrial /\ ~C23_Commercial /\ ~C23_LargePark /\ ~C23_GreenAbove30)
              => result = MIXED

\* A name with an industrial and a commercial keyword, a sample with a park
\* above 5000 and an average above 30 %, classified Industrial.
C23_Witness ==
    /\ op = "classify"
    /\ C23_Industrial /\ C23_Commercial /\ C23_LargePark /\ C23_GreenAbove30
    /\ result = INDUSTRIAL

\* A park above 5000 with an average above 30 % and no keyword: ParkAdjacent.
C23_WitnessPark ==
    /\ op = "classify"
    /\ ~C23_Industrial /\ ~C23_Commercial /\ C23_LargePark /\ C23_GreenAbove30
    /\ result = PARK_ADJACENT


\* The three rules of the claim for the solution type of a template.
C24_Eligible(template) == IF args \in template.suitable_for THEN 30 ELSE 0

C24_Tier(mission_type) ==
    CASE heat_data.heat_island_intensity >= 200 ->
            IF mission_type \in {GREEN_ROOF, TREE_PLANTING} THEN 25 ELSE 0
      [] heat_data.heat_island_intensity >= 150
         /\ heat_data.heat_island_intensity < 200 ->
            IF mission_type \in {COOL_PAVEMENT, TREE_PLANTING} THEN 20 ELSE 0
      [] heat_data.heat_island_intensity < 150 ->
            IF mission_type \in {SHADE_STRUCTURE, WATER_FEATURE} THEN 15 ELSE 0

C24_Green(mission_type) ==
    IF Len(C23_Samples) = 0 THEN 0
    ELSE LET total == SumSeq([i \in 1..Len(C23_Samples) |->
                                 C23_Samples[i].green_coverage_ratio])
             n == Len(C23_Samples)
         IN  (IF total < 150 * n /\ mission_type = TREE_PLANTING THEN 20 ELSE 0)
           + (IF total < 100 * n /\ mission_type = GREEN_ROOF THEN 15 ELSE 0)

C24_Score(template) ==
    C24_Eligible(template) + C24_Tier(template.mission_type)
        + C24_Green(template.mission_type)

C24_ScoreOf(mission_type) ==
    C24_Score(MISSION_TEMPLATES[CHOOSE k \in 1..Len(MISSION_TEMPLATES) :
                                    MISSION_TEMPLATES[k].mission_type = mission_type])

\* C24: each solution type's suitability score is the sum of three
\* independent rules: +30 if the classification is in the type's eligible
\* set; the one intensity tier that applies (>= 2.0: +25 to GreenRoof and
\* TreePlanting; else >= 1.5: +20 to CoolPavement and TreePlanting; else +15
\* to ShadeStructure and WaterFeature); and with green samples +20 to
\* TreePlanting for an average below 15 and +15 to GreenRoof for an average
\* below 10, both for an average below 10.  The recommendation ranks by it.
C24_SumOfThreeRules ==
    (op = "recommend" /\ raised = NotRaised) =>
        /\ \A i \in 1..Len(MISSION_TEMPLATES) :
              SolutionScore(MISSION_TEMPLATES[i], heat_data, args, green_data)
                  = C24_Score(MISSION_TEMPLATES[i])
        /\ \A i \in 1..Len(result) : \A mission_type \in MissionTypes :
              (\A j \in 1..Len(result) : result[j] # mission_type)
                  => C24_ScoreOf(result[i]) >= C24_ScoreOf(mission_type)
        /\ \A i \in 1..Len(result) - 1 :
              C24_ScoreOf(result[i]) >= C24_ScoreOf(result[i + 1])

\* Samples averaging below 10 %, an industrial class and an intensity of at
\* least 2.0: GreenRoof (30 + 25 + 15) leads TreePlanting (0 + 25 + 20).
C24_Witness ==
    /\ op = "recommend"
    /\ raised = NotRaised
    /\ args = INDUSTRIAL
    /\ heat_data.heat_island_intensity >= 200
    /\ C24_Green(TREE_PLANTING) = 20
    /\ C24_Green(GREEN_ROOF) = 15
    /\ result[1] = GREEN_ROOF
    /\ result[2] = TREE_PLANTING


\* base_points of the solution type of a mission.
C25_BasePoints(mission_type) ==
    CASE mission_type = TREE_PLANTING -> 50
      [] mission_type = GREEN_ROOF -> 100
      [] mission_type = COOL_PAVEMENT -> 80
      [] mission_type = WATER_FEATURE -> 70
      [] mission_type = SHADE_STRUCTURE -> 30

\* C25: for every generated mission, points_reward =
\* floor(base_points * (1 + priority_score / 200)) for the mission's solution
\* type, an integer with base_points <= points_reward <= floor(1.5 *
\* base_points).
C25_PointsAreTheFloor ==
    (op = "generate_mission" /\ raised = NotRaised) =>
        LET base_points == C25_BasePoints(result.mission_type) IN
        /\ result.points_reward =
               (base_points * (200 * ScoreScale + result.priority_score))
                   \div (200 * ScoreScale)
        /\ result.points_reward \in Int
        /\ base_points <= result.points_reward
        /\ result.points_reward <= (3 * base_points) \div 2


\* The estimates of the districts a batch left out.
C26_LeftOut ==
    LET all == ComputeMockHeatIslandData(None)
    IN  { all[k] : k \in { k \in 1..Len(all) :
                              \A i \in 1..Len(result) :
                                  result[i].district # all[k].district } }

\* The priority scores analyze_area can give an estimate, one for each list
\* of samples the provider can answer with.
C26_ScoresOf(h) ==
    { CalculatePriorityScore(h, Some(green), Some(MockWeatherData)) :
          green \in MockGreenChoices }

\* C26 as stated: the districts generate_missions_batch(top_n) generates
\* missions for are the top_n of highest priority: no district left out of
\* the batch would receive a priority score higher than a district included
\* in it.
C26_TopNByPriorityScore ==
    (op = "generate_missions_batch" /\ args.top_n >= 1) =>
        \A h \in C26_LeftOut : \A s \in C26_ScoresOf(h) :
            \A i \in 1..Len(result) : s <= result[i].priority_score

\* C26, amended: the districts generate_missions_batch(top_n) generates
\* missions for are the top_n of highest heat-island intensity: no district
\* left out of the batch has an estimated intensity higher than a district
\* included in it.
C26_TopNByIntensity ==
    (op = "generate_missions_batch" /\ args.top_n >= 1) =>
        /\ Len(result) = Min(args.top_n, Len(GYEONGGI_DISTRICTS))
        /\ \A h \in C26_LeftOut : \A i \in 1..Len(result) :
              h.heat_island_intensity <= result[i].ai_reasoning.intensity

\* A batch of two with a district left out whose intensity is lower than
\* both and whose score can be higher than the score of one of them.
C26_Witness ==
    /\ op = "generate_missions_batch"
    /\ args.top_n = 2
    /\ Len(result) = 2
    /\ \E h \in C26_LeftOut : \E s \in C26_ScoresOf(h) :
          /\ h.heat_island_intensity < result[1].ai_reasoning.intensity
          /\ h.heat_island_intensity < result[2].ai_reasoning.intensity
          /\ s > result[2].priority_score


\* The template of the claim for an intensity (hundredths).
C27_TierTemplate(intensity) ==
    IF intensity >= 200 THEN REASONING_TEMPLATES.high_intensity
    ELSE IF intensity >= 150 THEN REASONING_TEMPLATES.medium_intensity
    ELSE REASONING_TEMPLATES.low_intensity

\* C27: the justification text of a generated mission is built from the
\* template of the estimate's intensity tier: the severe one for an
\* intensity >= 2.0, the moderate one for >= 1.5, the mild one otherwise.
C27_TemplateByTier ==
    (op = "generate_mission" /\ raised = NotRaised) =>
        result.ai_reasoning.template = C27_TierTemplate(heat_data.heat_island_intensity)


\* Every estimate the three paths of the estimator produce for the
\* districts and ratios of the model.
C28_EstimatorProduced ==
    {MockEstimate(d) : d \in DistrictInputs}
    \cup UNION { {LiveEstimate(d, g), DashboardEstimate(d, g)} :
                    d \in DistrictInputs,
                    g \in {None} \cup {Some(r) : r \in GreenRatioInputs} }

\* C28: for every estimate produced by the estimator, temperature = 28.0 +
\* intensity lies in [28.5, 31.0], so the temperature term of its priority
\* score is 5 or 10 and the score computed for it never exceeds 90: the cap
\* at 100 is not the binding term.
C28_EstimatorScoresAtMost90 ==
    heat_data \in C28_EstimatorProduced =>
        /\ heat_data.temperature >= 285
        /\ heat_data.temperature <= 310
        /\ heat_data.temperature * 10 - 2800 - heat_data.heat_island_intensity \in -5..5
        /\ (op = "score" /\ raised = NotRaised) =>
              LET terms == IntensityScore(heat_data) + GreenScore(green_data)
                               + WeatherScore(weather_data)
              IN  /\ result - terms \in {5 * ScoreScale, 10 * ScoreScale}
                  /\ (result - terms = 10 * ScoreScale) <=> (heat_data.temperature >= 300)
                  /\ result <= 90 * ScoreScale
                  /\ result < 100 * ScoreScale

\* The estimate of highest temperature, 31.0 C for intensity 3.0, scored with
\* samples, humid air and no wind: 40 + 10 + the green term + 20.
C28_Witness ==
    /\ op = "score"
    /\ heat_data \in C28_EstimatorProduced
    /\ heat_data.temperature = 310
    /\ heat_data.heat_island_intensity = 300
    /\ green_data # None
    /\ weather_data # None
    /\ WeatherScore(weather_data) = 20 * ScoreScale
    /\ result > 85 * ScoreScale


\* C29: once get_district_green_stats has stored a non-empty set of ratios
\* on a ClimateService, the store is never overwritten, and every later call
\* on it issues no provider request and returns exactly those ratios.
C29_StoreIsKept ==
    [][ district_park_stats # <<>> =>
          /\ district_park_stats' = district_park_stats
          /\ awaiting' = awaiting =>
                /\ op' = "get_district_green_stats"
                /\ ~args'.requested
                /\ result' = district_park_stats ]_vars


\* C30: after any sequence of mission create, update and delete requests,
\* every stored mission whose status is COMPLETED has a non-null
\* completed_at: a mission is created PENDING without a completion time, an
\* update that sets COMPLETED records completed_at in the same step, and no
\* update clears completed_at.
C30_CompletedHasTime ==
    /\ [](/\ \A id \in DOMAIN mission_table :
                mission_table[id].status = Some(COMPLETED)
                    => mission_table[id].completed_at # None
          /\ (op = "create_mission" /\ raised = NotRaised) =>
                /\ result.status = Some(PENDING)
                /\ result.completed_at = None)
    /\ [][ op' = "update_mission" =>
              \A id \in DOMAIN mission_table :
                  mission_table[id].completed_at # None =>
                      /\ id \in DOMAIN mission_table'
                      /\ mission_table'[id].completed_at # None ]_vars

\* An update that set COMPLETED on a pending mission: the row returned is
\* completed and has its completion time.
C30_Witness ==
    /\ op = "update_mission"
    /\ raised = NotRaised
    /\ args.update.status = Some(Some(COMPLETED))
    /\ result.status = Some(COMPLETED)
    /\ result.completed_at # None
    /\ mission_table[args.mission_id] = result

=============================================================================
